---- MODULE Spec2Model ----
(***************************************************************************)
(* Model of the IFrame message proxy (ProxyControlImpl) of the transport   *)
(* bus: the inbound window-message handler, the outbound monitor relay,    *)
(* and the allowlists (origins, channels) it consults; and of the service  *)
(* layer: AbstractService, the REST mock AbstractAutoRestMock and the REST *)
(* channel between them; and of a store (BusStore) of the bus.             *)
(*                                                                         *)
(* Each action is one call into ProxyControlImpl.  The variables busSends, *)
(* posted, regBefore, ev, mo and lastOp record what the last call was      *)
(* given and what it did, so that the properties are state predicates;     *)
(* each apiBridge call keeps the answer of the mock and the replies of the *)
(* service for the same purpose, and storeOp keeps the last call into the  *)
(* store.                                                                  *)
(***************************************************************************)
EXTENDS Integers, Sequences, FiniteSets, TLC

(***************************************************************************)
(* Values of the program                                                   *)
(***************************************************************************)

\* private readonly proxyControlChannel
proxyControlChannel == "__proxycontrol__"

\* the wildcard entry of targetOrigin
Wildcard == "*"

\* EventBus.id of the bus this proxy is attached to
EventBusId == "bus-self"

\* ProxyControlImpl.getName()
getName == "ProxyControl-" \o EventBusId

\* JavaScript undefined / null, where a string is expected
Undefined == "undefined"
Null == "null"

\* MessageType (wire format: "Request" | "Response" | "Error" | "Control")
MessageTypeRequest == "Request"
MessageTypeResponse == "Response"
MessageTypeError == "Error"
MessageTypeControl == "Control"

\* ProxyControlType
RegisterEventBus == "RegisterEventBus"
BusStartListening == "BusStartListening"
BusStopListening == "BusStopListening"

\* ProxyType
ProxyTypeParent == "Parent"
ProxyTypeChild == "Child"
ProxyTypeHybrid == "Hybrid"

\* proxyType of a proxy whose config is undefined (constructed without configuration)
NoConfig == "<no config>"

\* monitorSubscription after unsubscribe(): a closed Subscription
Unsubscribed == "unsubscribed"

\* MonitorType
MonitorData == "MonitorData"
MonitorNewChannel == "MonitorNewChannel"

(***************************************************************************)
(* Bounds of the model: the alphabets the inputs are drawn from            *)
(***************************************************************************)

\* longest accepted-origins array the model builds
MaxOrigins == 2

\* most 'message' handlers the model registers on the window
MaxListeners == 2

\* most apiBridge calls of a run, most messages in flight on the REST channel, and
\* deepest forced-error / forced-response stack of the REST mock
MaxCalls == 1
MaxInFlight == 1
MaxStack == 1

\* concrete origins, and application channels besides the control channel
Origins == {"https://a.example", "https://b.example"}
Channels == {"chat"}

\* ids of the child buses that talk to this proxy
BusIds == {"bus-1"}

\* frames of the window this proxy lives in (domWindow.frames)
WindowFrames == <<"frame-1", "frame-2">>

(***************************************************************************)
(* Array helpers (JavaScript Array semantics)                              *)
(***************************************************************************)

Range(s) == {s[i] : i \in 1..Len(s)}

\* Array.prototype.includes
Includes(s, x) == x \in Range(s)

\* Array.prototype.indexOf, 1-based; 0 stands for JavaScript's -1
IndexOf(s, x) ==
    IF x \in Range(s) THEN CHOOSE i \in 1..Len(s) : s[i] = x /\ \A j \in 1..(i-1) : s[j] # x
    ELSE 0

\* Array.prototype.push
Push(s, x) == Append(s, x)

\* Array.prototype.splice(index, 1), 1-based
Splice1(s, i) == SubSeq(s, 1, i-1) \o SubSeq(s, i+1, Len(s))

\* an array-valued property or field: set to an array, or not set (undefined)
ArraySet(array) == [set |-> TRUE, value |-> array]
ArrayUnset == [set |-> FALSE, value |-> <<>>]

(***************************************************************************)
(* Inbound window messages (MessageEvent)                                  *)
(*                                                                         *)
(* event == [origin, data]; data.shape is "null" (no data), "empty" (the   *)
(* empty string) or "object".  A property of data is Absent when data has  *)
(* no such own property, Null when it is null.  payload.shape is "null",   *)
(* "undefined", "string" (payload.text) or "object" (a                     *)
(* ProxyControlPayload: body, proxyType).                                  *)
(***************************************************************************)

Absent == "<absent>"

NullPayload == [shape |-> "null", text |-> "", body |-> Undefined, proxyType |-> Undefined]
TextPayload(t) == [shape |-> "string", text |-> t, body |-> Undefined, proxyType |-> Undefined]
ControlPayload(b, t) == [shape |-> "object", text |-> "", body |-> b, proxyType |-> t]
UndefinedPayload == [shape |-> "undefined", text |-> "", body |-> Undefined, proxyType |-> Undefined]
AbsentPayload == [shape |-> Absent, text |-> "", body |-> Undefined, proxyType |-> Undefined]

ObjectData(f, ch, ty, p, ctl) ==
    [shape |-> "object", from |-> f, channel |-> ch, type |-> ty, payload |-> p, control |-> ctl]
NullData == [ObjectData(Absent, Absent, Absent, AbsentPayload, Absent) EXCEPT !.shape = "null"]
EmptyData == [ObjectData(Absent, Absent, Absent, AbsentPayload, Absent) EXCEPT !.shape = "empty"]

\* the from tag a BusProxyMessage of bus b carries on the wire
ProxyTag(b) == "proxy-" \o b

EventChannels == Channels \cup {proxyControlChannel}
EventTypes == {MessageTypeRequest, MessageTypeResponse, MessageTypeError, MessageTypeControl}
ControlCommands == {RegisterEventBus, BusStartListening, BusStopListening, "Bogus"}
PayloadProxyTypes == {ProxyTypeChild, ProxyTypeParent}

\* the tag of a child bus, and the tag of this bus
OtherTag == ProxyTag(CHOOSE b \in BusIds : TRUE)
OwnTag == ProxyTag(EventBusId)

\* well-formed messages that carry no control field: every type on the application
\* channels, a request on the control channel
PlainData ==
    {ObjectData(OtherTag, ch, ty, TextPayload("hi"), Null) :
        ch \in Channels, ty \in EventTypes}
    \cup {ObjectData(OtherTag, proxyControlChannel, MessageTypeRequest,
                     TextPayload("hi"), Null)}

\* well-formed messages that carry a control field: every command for every bus id and
\* proxy type on the control channel, two commands on the other channels
ControlData ==
    {ObjectData(OtherTag, proxyControlChannel, MessageTypeControl,
                ControlPayload(d[1], d[2]), d[3]) :
        d \in BusIds \X PayloadProxyTypes \X ControlCommands}
    \cup {ObjectData(OtherTag, ch, MessageTypeControl,
                     ControlPayload(b, ProxyTypeChild), c) :
            ch \in Channels, b \in BusIds, c \in {RegisterEventBus, BusStopListening}}

\* messages with one property null, empty, undefined or missing
MalformedData ==
    LET ok == ObjectData(OtherTag, CHOOSE c \in Channels : TRUE,
                         MessageTypeRequest, TextPayload("hi"), Null)
    IN  {[ok EXCEPT !.channel = v] : v \in {Null, "", Absent}}
        \cup {[ok EXCEPT !.type = v] : v \in {Null, ""}}
        \cup {[ok EXCEPT !.payload = v] : v \in {NullPayload, TextPayload("")}}
        \cup {[ok EXCEPT !.payload = v, !.channel = proxyControlChannel,
                         !.type = MessageTypeControl, !.control = RegisterEventBus] :
                v \in {NullPayload, UndefinedPayload}}

\* messages that carry the tag of this bus
OwnData ==
    {ObjectData(OwnTag, ch, MessageTypeRequest, TextPayload("hi"), Null) : ch \in Channels}
    \cup {ObjectData(OwnTag, proxyControlChannel, MessageTypeControl,
                     ControlPayload(b, ProxyTypeChild), RegisterEventBus) : b \in BusIds}

InboundData ==
    PlainData \cup ControlData \cup MalformedData \cup OwnData \cup {NullData, EmptyData}

InboundEvents == {[origin |-> o, data |-> d] : o \in Origins, d \in InboundData}

NoEvent == [origin |-> Undefined, data |-> NullData]

(***************************************************************************)
(* Bus messages and monitor objects                                        *)
(***************************************************************************)

\* new Message(id).request(payload) / .response(payload) / .error(payload)
Message(id, type, payload, rebroadcast) ==
    [id |-> id, type |-> type, payload |-> payload, proxyRebroadcast |-> rebroadcast]

\* one call of bus.api.send(channel, message, from)
BusSend(channel, message, from) == [channel |-> channel, message |-> message, from |-> from]

\* the MonitorObject the bus emits on the monitor stream for a sent message
MonitorObject(type, channel, data) == [type |-> type, channel |-> channel, data |-> data]

NoMessage == Message(Undefined, Undefined, NullPayload, FALSE)
NoMonitor == MonitorObject(Undefined, Undefined, NoMessage)

\* messages local components publish on the bus, and a rebroadcast by another relay
PublishedMessages ==
    {Message("msg-1", MessageTypeRequest, TextPayload("hi"), rb) : rb \in BOOLEAN}

MonitorEvents ==
    {MonitorObject(MonitorData, ch, m) : ch \in EventChannels, m \in PublishedMessages}
    \cup {MonitorObject(MonitorNewChannel, ch, NoMessage) : ch \in Channels}

\* a BusProxyMessage handed to postMessage: new BusProxyMessage(payload, channel, type, from)
BusProxyMessage(payload, channel, type, from) ==
    [payload |-> payload, channel |-> channel, type |-> type, from |-> from, control |-> Null]

\* one call of postMessage on a target window ("parent" or a frame)
Post(target, proxyMessage, targetOrigin_) ==
    [to |-> target, message |-> proxyMessage, targetOrigin |-> targetOrigin_]

(***************************************************************************)
(* State of a ProxyControlImpl                                             *)
(***************************************************************************)

VARIABLES
    proxyType,              \* config.proxyType (NoConfig when config is undefined)
    targetOrigin,           \* accepted origins, an array
    authorizedChannels,     \* authorised channels, an array
    targetAllFramesValue,   \* broadcast to every frame of the window
    targetedFrames,         \* ids of the frames targeted, an array
    parentOriginValue,      \* target origin of outbound posts
    knownBusInstances,      \* Map<bus id, ProxyState>
    listening,              \* this.listening
    windowListeners,        \* handlers registered on the window for 'message'
    monitorSubscription,    \* the relay subscribed to the monitor stream, Unsubscribed
                            \* once closed, Undefined while never assigned
    lastOp,                 \* name of the last call
    ev,                     \* the MessageEvent of the last call (NoEvent if none)
    mo,                     \* the MonitorObject of the last call (NoMonitor if none)
    busSends,               \* bus.api.send calls made by the last call
    posted,                 \* postMessage calls made by the last call
    regBefore,              \* knownBusInstances before the last call
    threw                   \* the last call threw an exception

(***************************************************************************)
(* State of the services                                                   *)
(***************************************************************************)

VARIABLES
    calls,                  \* the apiBridge calls made, each with its once-handler
    nextUuid,               \* number of ids GeneralUtil.genUUID() has generated
    restChannel,            \* messages sent on RestService.channel, not yet delivered
    mustFail,               \* AbstractAutoRestMock.mustFail
    pvtForceError,          \* AbstractAutoRestMock.pvtForceError
    pvtForceResponse,       \* AbstractAutoRestMock.pvtForceResponse
    restError,              \* AbstractAutoRestMock.restError
    listensTo,              \* AbstractAutoRestMock.listensTo
    mockOp                  \* the last direct call into the mock and what it did

serviceVars == <<calls, nextUuid, restChannel, mustFail, pvtForceError, pvtForceResponse,
                 restError, listensTo, mockOp>>

(***************************************************************************)
(* State of the store                                                      *)
(***************************************************************************)

VARIABLES
    cache,                  \* the ordered map of the store: <<key, value>> entries
    storeOp,                \* the last call into the store and what it did
    putKeys,                \* the keys put since the store was created
    ready,                  \* the store has been initialized or populated
    waiters,                \* whenReady callbacks waiting for the store to be ready
    readyLog,               \* whenReady callbacks invoked, in the order of invocation
    copy,                   \* the map a caller got from allValuesAsMap()
    stream,                 \* the stream a caller got from onChange(key, ...states)
    subscribed,             \* the stream has a subscriber
    received,               \* the change events handed to the subscriber of the stream
    mutator,                \* the subscriber of onMutationRequest(exemplar, ...types)
    replies,                \* the caller's onSuccess / onError handlers run so far
    stores,                 \* the stores of the store manager, in creation order
    join,                   \* the readyJoin(names).whenReady(callback) registered
    joinLog,                \* the arrays of stores handed to the callback of the join
    subscribers,            \* the subscribers of each channel, in subscription order
    deliveries,             \* the calls of subscribers, in the order they were made
    published,              \* the number of messages published
    busOp,                  \* the last call of the bus
    logLevel,               \* Logger._logLevel
    suppressFlag,           \* Logger._suppress
    silentFlag,             \* Logger._silent
    styledLogsSupported,    \* Logger._styledLogsSupported
    lastLog,                \* Logger._lastLog
    logOp,                  \* the last call of the logger and what it wrote
    frameOrigin,            \* the origin of each window (the parent's and the frames')
    frameAccepts,           \* targetOrigin of the proxy of each window
    frameListening,         \* listening of the proxy of each window
    parentRegistry,         \* knownBusInstances of the proxy of the parent window
    frameBus,               \* the sends made on the bus of each window, in order
    inflight,               \* the window messages posted and not yet delivered
    sentIn,                 \* the window a local sender published its message in
    frameOp,                \* the last step of the windows
    openHandlers,           \* the request handlers subscribed to the service channel
    requestStreamSub,       \* AbstractService.requestStreamSub
    streamsMade,            \* the request streams the service has made
    lastSwitch,             \* the last of online() / offline() called on the service
    handledBy               \* the handlers that ran for the last request

lifeVars == <<ready, waiters, readyLog, copy>>
changeVars == <<stream, subscribed, received>>
mutateVars == <<mutator, replies>>
joinVars == <<stores, join, joinLog>>
kernelVars == <<subscribers, deliveries, published, busOp>>
loggerVars == <<logLevel, suppressFlag, silentFlag, styledLogsSupported, lastLog, logOp>>
frameVars == <<frameOrigin, frameAccepts, frameListening, parentRegistry, frameBus,
               inflight, sentIn, frameOp>>
onlineVars == <<openHandlers, requestStreamSub, streamsMade, lastSwitch, handledBy>>
storeVars ==
    <<cache, storeOp, putKeys, lifeVars, changeVars, mutateVars, joinVars, kernelVars,
      loggerVars, frameVars, onlineVars>>

proxyVars == <<proxyType, targetOrigin, authorizedChannels, targetAllFramesValue,
               targetedFrames, parentOriginValue, knownBusInstances, listening,
               windowListeners, monitorSubscription>>
obsVars == <<lastOp, ev, mo, busSends, posted, regBefore, threw>>
vars == <<proxyVars, obsVars, serviceVars, storeVars>>

(***************************************************************************)
(* Outbound relay: the callbacks subscribed to the monitor stream          *)
(***************************************************************************)

\* sendMessageToParent: one post to window.parent
sendMessageToParent(message, chan) ==
    << Post("parent", BusProxyMessage(message.payload, chan, message.type, EventBusId),
            parentOriginValue) >>

\* sendControlToParent: one control post to window.parent
sendControlToParent(command, body, type) ==
    << Post("parent",
            [BusProxyMessage(ControlPayload(body, type), proxyControlChannel,
                             MessageTypeControl, EventBusId) EXCEPT !.control = command],
            parentOriginValue) >>

\* posts to every frame of the window, in index order
PostToFrames(frames, proxyMessage) ==
    [i \in 1..Len(frames) |-> Post(frames[i], proxyMessage, parentOriginValue)]

\* sendMessageToChildFrames: every frame if targeting all, then every targeted frame
sendMessageToChildFrames(message, chan) ==
    LET proxyMessage == BusProxyMessage(message.payload, chan, message.type, message.id)
    IN  (IF targetAllFramesValue THEN PostToFrames(WindowFrames, proxyMessage) ELSE <<>>)
        \o (IF Len(targetedFrames) > 0 THEN PostToFrames(targetedFrames, proxyMessage)
            ELSE <<>>)

\* the loop over authorizedChannels of the Parent relay
RECURSIVE relayToChildrenLoop(_, _)
relayToChildrenLoop(chans, m) ==
    IF chans = <<>> THEN <<>>
    ELSE (IF m.channel = Head(chans) THEN sendMessageToChildFrames(m.data, Head(chans))
          ELSE <<>>)
         \o relayToChildrenLoop(Tail(chans), m)

\* the loop over authorizedChannels of the Child relay
RECURSIVE relayToParentLoop(_, _)
relayToParentLoop(chans, m) ==
    IF chans = <<>> THEN <<>>
    ELSE (IF m.channel = Head(chans) /\ ~m.data.proxyRebroadcast
          THEN sendMessageToParent(m.data, Head(chans))
          ELSE <<>>)
         \o relayToParentLoop(Tail(chans), m)

\* relayMessagesToChildren: the monitor callback of a Parent proxy
relayMessagesToChildren(m) ==
    IF m.type = MonitorData THEN relayToChildrenLoop(authorizedChannels, m) ELSE <<>>

\* the Child relay posting every monitored message, whatever its channel
relayMessagesToParent_anyChannel(m) ==
    IF m.type = MonitorData /\ ~m.data.proxyRebroadcast
    THEN sendMessageToParent(m.data, m.channel) ELSE <<>>

\* relayMessagesToParent: the monitor callback of a Child proxy
relayMessagesToParent(m) ==
    IF m.type = MonitorData THEN relayToParentLoop(authorizedChannels, m) ELSE <<>>

\* what the monitor subscription of this proxy posts for one monitor object
monitorCallback(m) ==
    CASE monitorSubscription = "relayMessagesToChildren" -> relayMessagesToChildren(m)
      [] monitorSubscription = "relayMessagesToParent" -> relayMessagesToParent(m)
      [] OTHER -> <<>>

\* the bus emits one MonitorData object per send; the proxy's own subscription sees them
RECURSIVE monitorSends(_)
monitorSends(sends) ==
    IF sends = <<>> THEN <<>>
    ELSE monitorCallback(MonitorObject(MonitorData, Head(sends).channel, Head(sends).message))
         \o monitorSends(Tail(sends))

(***************************************************************************)
(* Inbound handler: parentEventHandler and what it calls                   *)
(***************************************************************************)

\* isFromOwnBus comparing the tag with the bare bus id
isFromOwnBus_bareId(data) ==
    /\ data.shape = "object"
    /\ data.from # Absent
    /\ data.from = EventBusId

\* the message originated from this bus (event.data.from === `proxy-${EventBus.id}`)
isFromOwnBus(data) ==
    /\ data.shape = "object"
    /\ data.from # Absent
    /\ data.from = "proxy-" \o EventBusId

\* the loop over targetOrigin: originOk is assigned anew for every entry
RECURSIVE originLoop(_, _, _)
originLoop(origins, eventOrigin, originOk) ==
    IF origins = <<>> THEN originOk
    ELSE originLoop(Tail(origins), eventOrigin,
                    (Head(origins) = Wildcard) \/ (Head(origins) = eventOrigin))

\* checkOrigin with originOk initialised to true
checkOrigin_initTrue(eventOrigin) == originLoop(targetOrigin, eventOrigin, TRUE)

\* the origin check; originOk starts undefined, which is falsy
checkOrigin(eventOrigin) == originLoop(targetOrigin, eventOrigin, FALSE)

\* event.data && event.data !== ''
hasData(data) == data.shape = "object"

\* data has own properties channel, type and payload
isSerializedBusMessage(data) ==
    /\ data.channel # Absent
    /\ data.type # Absent
    /\ data.payload.shape # Absent

\* isValidProxyMessage testing the payload for null only
isValidProxyMessage_nullOnly(data) ==
    /\ ~(data.channel = Null \/ data.channel = "")
    /\ ~(data.type = Null \/ data.type = "")
    /\ ~(data.payload.shape = "null")

\* none of channel, type, payload is null or ''
isValidProxyMessage(data) ==
    /\ ~(data.channel = Null \/ data.channel = "")
    /\ ~(data.type = Null \/ data.type = "")
    /\ ~(data.payload.shape = "null" \/ (data.payload.shape = "string" /\ data.payload.text = ""))

\* validateChannel using indexOf as a truth value (-1 is truthy, index 0 is falsy)
validateChannel_truthyIndex(requestedChannel) ==
    IndexOf(authorizedChannels, requestedChannel) # 1

\* validateChannel
validateChannel(requestedChannel) == Includes(authorizedChannels, requestedChannel)

\* data.control != null (loose: undefined counts as null)
isControl(data) == data.control # Null /\ data.control # Absent

\* ProxyState; Map.get of a missing key, and a stored undefined, are UndefinedState
ProxyState(type, active) == [defined |-> TRUE, type |-> type, active |-> active]
UndefinedState == [defined |-> FALSE, type |-> Undefined, active |-> FALSE]

MapGet(map, key) == IF key \in DOMAIN map THEN map[key] ELSE UndefinedState
MapSet(map, key, value) == [k \in DOMAIN map \cup {key} |-> IF k = key THEN value ELSE map[k]]

\* state.active = flag, when state is truthy
setActive(state, flag) == IF state.defined THEN [state EXCEPT !.active = flag] ELSE state

\* handleControl building a new state from the payload when a bus stops listening
handleControl_rebuildState(map, data) ==
    LET payload == data.payload
        state == MapGet(map, payload.body)
    IN  CASE data.control = RegisterEventBus ->
                MapSet(map, payload.body, ProxyState(payload.proxyType, TRUE))
          [] data.control = BusStartListening ->
                MapSet(map, payload.body, setActive(state, TRUE))
          [] data.control = BusStopListening ->
                MapSet(map, payload.body,
                       IF state.defined THEN ProxyState(payload.proxyType, FALSE) ELSE state)
          [] OTHER -> map

\* the switch over data.control
handleControl(map, data) ==
    LET payload == data.payload
        state == MapGet(map, payload.body)
    IN  CASE data.control = RegisterEventBus ->
                MapSet(map, payload.body, ProxyState(payload.proxyType, TRUE))
          [] data.control = BusStartListening ->
                MapSet(map, payload.body, setActive(state, TRUE))
          [] data.control = BusStopListening ->
                MapSet(map, payload.body, setActive(state, FALSE))
          [] OTHER -> map

\* proxyMessage building a response in the Error case
proxyMessage_errorAsResponse(message, origin) ==
    LET id == "proxy-" \o message.from
        from == getName \o "-" \o origin
    IN  CASE message.type = MessageTypeRequest ->
                << BusSend(message.channel,
                           Message(id, MessageTypeRequest, message.payload, TRUE), from) >>
          [] message.type = MessageTypeResponse ->
                << BusSend(message.channel,
                           Message(id, MessageTypeResponse, message.payload, TRUE), from) >>
          [] message.type = MessageTypeError ->
                << BusSend(message.channel,
                           Message(id, MessageTypeResponse, message.payload, TRUE), from) >>
          [] OTHER -> <<>>

\* proxyMessage: the bus.api.send calls for an accepted message
proxyMessage(message, origin) ==
    LET id == "proxy-" \o message.from
        from == getName \o "-" \o origin
    IN  CASE message.type = MessageTypeRequest ->
                << BusSend(message.channel,
                           Message(id, MessageTypeRequest, message.payload, TRUE), from) >>
          [] message.type = MessageTypeResponse ->
                << BusSend(message.channel,
                           Message(id, MessageTypeResponse, message.payload, TRUE), from) >>
          [] message.type = MessageTypeError ->
                << BusSend(message.channel,
                           Message(id, MessageTypeError, message.payload, TRUE), from) >>
          [] OTHER -> <<>>

\* the handler returns early
Dropped == [sends |-> <<>>, registry |-> knownBusInstances, threw |-> FALSE]

\* reading payload.body of an undefined payload throws a TypeError
Thrown == [sends |-> <<>>, registry |-> knownBusInstances, threw |-> TRUE]

\* the control branch reads payload.body in the cases of the three known commands
readsPayloadBody(data) ==
    data.control \in {RegisterEventBus, BusStartListening, BusStopListening}

\* parentEventHandler: the sends it makes and the registry it leaves
parentEventHandler(event) ==
    LET data == event.data
    IN  IF isFromOwnBus(data) THEN Dropped
        ELSE IF ~checkOrigin(event.origin) THEN Dropped
        ELSE IF ~hasData(data) THEN Dropped
        ELSE IF ~isSerializedBusMessage(data) THEN Dropped
        ELSE IF ~isValidProxyMessage(data) THEN Dropped
        ELSE IF ~validateChannel(data.channel) THEN Dropped
        ELSE IF isControl(data)
             THEN IF data.payload.shape = "undefined" /\ readsPayloadBody(data) THEN Thrown
                  ELSE [sends |-> <<>>, registry |-> handleControl(knownBusInstances, data),
                        threw |-> FALSE]
             ELSE [sends |-> proxyMessage(data, event.origin),
                   registry |-> knownBusInstances, threw |-> FALSE]

(***************************************************************************)
(* Services: values and messages                                           *)
(***************************************************************************)

\* export const SERVICE_ERROR, MOCK_FAKE_ERROR, MOCK_UNIMPLEMENTED_ERROR
SERVICE_ERROR == 505
MOCK_FAKE_ERROR == 400
MOCK_UNIMPLEMENTED_ERROR == 444

\* getName() of the service and of its REST mock, and the name of another service
ServiceName == "FakeService"
MockName == "FakeRestMock"
OtherServiceName == "OtherService"

\* HTTP_REQUEST_MAP: [operation, HttpRequest] pairs
HTTP_REQUEST_MAP ==
    << <<"GET", "Get">>, <<"POST", "Post">>, <<"PATCH", "Patch">>, <<"PUT", "Put">>,
       <<"DELETE", "Delete">>, <<"UPDATE_HEADERS", "UpdateGlobalHeaders">>,
       <<"HOST_OPTIONS", "SetRestServiceHostOptions">>,
       <<"CORS_OPTIONS", "DisableCORSAndCredentials">>,
       <<"CORS_CREDENTIALS_OPTIONS", "ConfigureCORSAndCredentials">> >>

\* this.requestConverterMap = new Map(HTTP_REQUEST_MAP): has and get
requestConverterMapHas(httpOp) ==
    \E i \in 1..Len(HTTP_REQUEST_MAP) : HTTP_REQUEST_MAP[i][1] = httpOp
requestConverterMapGet(httpOp) ==
    HTTP_REQUEST_MAP[CHOOSE i \in 1..Len(HTTP_REQUEST_MAP) : HTTP_REQUEST_MAP[i][1] = httpOp][2]

\* MessageArgs {uuid, version, from}; NoArgs is an args parameter left undefined
MessageArgs(uuid, version, from) ==
    [set |-> TRUE, uuid |-> uuid, version |-> version, from |-> from]
NoArgs == [set |-> FALSE, uuid |-> Undefined, version |-> 0, from |-> Undefined]

\* new RestError(message, status, uri): the status identifies it
RestError(status) == [status |-> status]

\* new RestObject(request, uri, body, headers, {}, {}, apiClass, senderName), and its
\* response field
RestObject(request, apiClass, senderName) ==
    [request |-> request, apiClass |-> apiClass, senderName |-> senderName,
     response |-> [data |-> Undefined]]

\* the id of a message sent without one: generated by the bus, equal to no other id
GeneratedId == "<generated>"

\* a message on a channel: kind, id, version, payload, sender
ChannelMessage(type, id, version, payload, from) ==
    [type |-> type, id |-> id, version |-> version, payload |-> payload, from |-> from]


\* GeneralUtil.genUUID(): the n-th id generated
genUUID(n) == "uuid-" \o ToString(n + 1)

\* bus.sendResponseMessageWithIdAndVersion / sendErrorMessageWithIdAndVersion
sendResponseMessageWithIdAndVersion(payload, id, version, from) ==
    ChannelMessage(MessageTypeResponse, id, version, payload, from)
sendErrorMessageWithIdAndVersion(payload, id, version, from) ==
    ChannelMessage(MessageTypeError, id, version, payload, from)

\* bus.sendResponseMessageWithId / sendErrorMessageWithId (version 1)
sendResponseMessageWithId(payload, id, from) ==
    ChannelMessage(MessageTypeResponse, id, 1, payload, from)
sendErrorMessageWithId(payload, id, from) ==
    ChannelMessage(MessageTypeError, id, 1, payload, from)

\* bus.sendResponseMessage / sendErrorMessage: no id is given
sendResponseMessage(payload, from) ==
    ChannelMessage(MessageTypeResponse, GeneratedId, 1, payload, from)
sendErrorMessage(payload, from) ==
    ChannelMessage(MessageTypeError, GeneratedId, 1, payload, from)

\* bus.requestOnceWithId(id, channel, payload, null, from): the request it sends
requestOnceWithId(id, payload, from) ==
    ChannelMessage(MessageTypeRequest, id, 1, payload, from)

(***************************************************************************)
(* AbstractService                                                         *)
(***************************************************************************)


\* postResponse(this.serviceChannel, responseObject, args): the message it sends
postResponse(responseObject, args) ==
    IF args.set
    THEN sendResponseMessageWithIdAndVersion(responseObject, args.uuid, args.version, args.from)
    ELSE sendResponseMessage(responseObject, ServiceName)

\* postError sending with the id of the request and the default version
postError_defaultVersion(err, args) ==
    IF args.set THEN sendErrorMessageWithId(err, args.uuid, args.from)
    ELSE sendErrorMessage(err, ServiceName)

\* postError(this.serviceChannel, err, args): the message it sends
postError(err, args) ==
    IF args.set
    THEN sendErrorMessageWithIdAndVersion(err, args.uuid, args.version, args.from)
    ELSE sendErrorMessage(err, ServiceName)


\* one apiBridge call: its arguments, the id of its once-handler (Undefined when no
\* request was made), whether the handler is attached, how often the success and the
\* failure handler ran, the messages the REST mock sent in answer to its request, the
\* replies the service posted on its channel, and whether a Response or Error with
\* the id of the handler was delivered after the handler had fired
Call(apiArgs, httpOp, handlerId, attached) ==
    [apiArgs |-> apiArgs, httpOp |-> httpOp, handlerId |-> handlerId, attached |-> attached,
     success |-> 0, failure |-> 0, answer |-> <<>>, replies |-> <<>>, late |-> FALSE]

\* the filter of a once-handler: msg.id == id && msg.kind in {Response, Error}
onceMatches(call, m) ==
    /\ call.attached
    /\ m.id = call.handlerId
    /\ m.type \in {MessageTypeResponse, MessageTypeError}

\* a once-handler unsubscribes itself when it fires
afterFiring(call) == [call EXCEPT !.attached = FALSE]

\* apiSuccessHandler / apiFailureHandler, reached through the lambdas of apiBridge:
\* the message posted on the service channel for the reply m
apiHandler(call, m) ==
    IF m.type = MessageTypeResponse THEN postResponse(m.payload.response, call.apiArgs)
    ELSE postError(m.payload, call.apiArgs)

\* handlers that run the success handler for every reply, and the failure handler
\* too for an Error
fired_bothHandlers(call, m) ==
    afterFiring([call EXCEPT !.success = @ + 1,
                             !.failure = @ + (IF m.type = MessageTypeError THEN 1 ELSE 0),
                             !.replies = Append(@, apiHandler(call, m))])

\* the handlers serviceCall passes to messageHandler.handle: a Response runs the
\* success handler, an Error the failure handler
fired(call, m) ==
    afterFiring([call EXCEPT !.success = @ + (IF m.type = MessageTypeResponse THEN 1 ELSE 0),
                             !.failure = @ + (IF m.type = MessageTypeError THEN 1 ELSE 0),
                             !.replies = Append(@, apiHandler(call, m))])

(***************************************************************************)
(* AbstractAutoRestMock                                                    *)
(***************************************************************************)

\* hasForceError / hasForceResponse: !!stack
hasForce(stack) == stack.set

\* a getter that reads the bottom of the stack
forceGet_bottom(stack) == stack.value[1]

\* the forceError / forceResponse getter: the value read (pop() if more than one
\* element, else element 0), and the stack it leaves
forceGet(stack) ==
    IF Len(stack.value) > 1 THEN stack.value[Len(stack.value)] ELSE stack.value[1]
forceLeft(stack) ==
    IF Len(stack.value) > 1 THEN ArraySet(SubSeq(stack.value, 1, Len(stack.value) - 1))
    ELSE stack

\* the forceError / forceResponse setter: a falsy value clears the stack
NullValue == [null |-> TRUE]
forceSet(stack, value) ==
    IF value = NullValue THEN ArrayUnset
    ELSE ArraySet(Push(IF stack.set THEN stack.value ELSE <<>>, value))

\* handleData: sets restObject.response and sends it
handleData(data, restObject, args) ==
    LET answer == [restObject EXCEPT !.response = data]
    IN  IF args.set THEN << sendResponseMessageWithId(answer, args.uuid, MockName) >>
        ELSE << sendResponseMessage(answer, MockName) >>


\* handleError
handleError(err, restObject, args) ==
    IF args.set THEN << sendErrorMessageWithId(err, args.uuid, MockName) >>
    ELSE << sendErrorMessage(err, MockName) >>

\* unhandledError(restRequestObject, apiClass): calls handleError without args
unhandledError(restRequestObject, apiClass) ==
    handleError(RestError(MOCK_UNIMPLEMENTED_ERROR), restRequestObject, NoArgs)

\* the API classes the derived mock implements, and the data it answers with
KnownApiClasses == {"known"}
MockData == [data |-> "mock data"]

\* httpGet .. httpDelete as a derived mock overrides them: data for an API class it
\* implements, unhandledError for any other
httpVerb(restRequestObject, args) ==
    IF restRequestObject.apiClass \in KnownApiClasses
    THEN handleData(MockData, restRequestObject, args)
    ELSE unhandledError(restRequestObject, restRequestObject.apiClass)

\* what handleServiceRequest sends and the fields it leaves
MockResult(sent, forceError, forceResponse, error) ==
    [sent |-> sent, forceError |-> forceError, forceResponse |-> forceResponse,
     restError |-> error]

\* handleServiceRequest(restRequestObject, requestArgs)
\* the branches below the sender test, in the order of the code
dispatch(restRequestObject, requestArgs) ==
    IF hasForce(pvtForceError)
    THEN MockResult(handleError(forceGet(pvtForceError), restRequestObject, requestArgs),
                    forceLeft(pvtForceError), pvtForceResponse, restError)
    ELSE IF mustFail
    THEN MockResult(handleError(restError, restRequestObject, requestArgs),
                    pvtForceError, pvtForceResponse, restError)
    ELSE IF hasForce(pvtForceResponse)
    THEN MockResult(handleData(forceGet(pvtForceResponse), restRequestObject, requestArgs),
                    pvtForceError, forceLeft(pvtForceResponse), restError)
    ELSE IF restRequestObject.request \in {"Get", "Post", "Put", "Patch", "Delete"}
    THEN MockResult(httpVerb(restRequestObject, requestArgs),
                    pvtForceError, pvtForceResponse, restError)
    ELSE MockResult(handleError(RestError(SERVICE_ERROR), restRequestObject, requestArgs),
                    pvtForceError, pvtForceResponse, RestError(SERVICE_ERROR))

\* a mock that answers with the forced response before it looks at the forced error
\* and at mustFail
handleServiceRequest_responseFirst(restRequestObject, requestArgs) ==
    IF restRequestObject.senderName # listensTo
    THEN MockResult(<<>>, pvtForceError, pvtForceResponse, restError)
    ELSE IF hasForce(pvtForceResponse)
    THEN MockResult(handleData(forceGet(pvtForceResponse), restRequestObject, requestArgs),
                    pvtForceError, forceLeft(pvtForceResponse), restError)
    ELSE dispatch(restRequestObject, requestArgs)

\* a mock that answers the requests of every service
handleServiceRequest_anySender(restRequestObject, requestArgs) ==
    dispatch(restRequestObject, requestArgs)

handleServiceRequest(restRequestObject, requestArgs) ==
    IF restRequestObject.senderName # listensTo
    THEN MockResult(<<>>, pvtForceError, pvtForceResponse, restError)
    ELSE IF hasForce(pvtForceError)
    THEN MockResult(handleError(forceGet(pvtForceError), restRequestObject, requestArgs),
                    forceLeft(pvtForceError), pvtForceResponse, restError)
    ELSE IF mustFail
    THEN MockResult(handleError(restError, restRequestObject, requestArgs),
                    pvtForceError, pvtForceResponse, restError)
    ELSE IF hasForce(pvtForceResponse)
    THEN MockResult(handleData(forceGet(pvtForceResponse), restRequestObject, requestArgs),
                    pvtForceError, forceLeft(pvtForceResponse), restError)
    ELSE IF restRequestObject.request \in {"Get", "Post", "Put", "Patch", "Delete"}
    THEN MockResult(httpVerb(restRequestObject, requestArgs),
                    pvtForceError, pvtForceResponse, restError)
    ELSE MockResult(handleError(RestError(SERVICE_ERROR), restRequestObject, requestArgs),
                    pvtForceError, pvtForceResponse, RestError(SERVICE_ERROR))

\* a direct call into the mock: the request or the read, the fields before it, what
\* it sent and what it returned
MockCall(op, restObject, before, sent, ret) ==
    [op |-> op, restObject |-> restObject, before |-> before, sent |-> sent, ret |-> ret]

\* the fields of the mock a request is answered from
MockFields ==
    [mustFail |-> mustFail, forceError |-> pvtForceError,
     forceResponse |-> pvtForceResponse, restError |-> restError]

\* the services as constructed: no call made, nothing in flight, the mock's defaults
ServicesConstructed(mockListensTo) ==
    /\ calls = <<>>
    /\ nextUuid = 0
    /\ restChannel = <<>>
    /\ mustFail = FALSE
    /\ pvtForceError = ArrayUnset
    /\ pvtForceResponse = ArrayUnset
    /\ restError = RestError(MOCK_FAKE_ERROR)
    /\ listensTo = mockListensTo
    /\ mockOp = MockCall("constructor", Undefined, Undefined, <<>>, Undefined)

(***************************************************************************)
(* BusStore: the ordered map and its change stream                         *)
(***************************************************************************)

\* keys, values and states of the store 'string'
StoreKeys == {"123", "456"}
StoreValues == {"chickie & fox", "maggie pop"}
StoreStates == {"Created", "Deleted"}

\* Map.has, Map.get, Map.set and Map.delete on the ordered map
cacheHas(map, k) == \E i \in DOMAIN map : map[i][1] = k
cacheGet(map, k) ==
    IF cacheHas(map, k) THEN map[CHOOSE i \in DOMAIN map : map[i][1] = k][2]
    ELSE Undefined
cacheSet(map, k, v) ==
    IF cacheHas(map, k)
    THEN [i \in DOMAIN map |-> IF map[i][1] = k THEN <<k, v>> ELSE map[i]]
    ELSE Append(map, <<k, v>>)
cacheDelete(map, k) == SelectSeq(map, LAMBDA e : e[1] # k)

\* a change event, and what a subscriber of the change stream sees when it is called
\* with the event: the value it is handed and what get(key) returns in its callback
ChangeEvent(k, v, state) == [key |-> k, value |-> v, state |-> state]
observes(map, event) ==
    [key |-> event.key, value |-> event.value, state |-> event.state,
     get |-> cacheGet(map, event.key)]

\* put(k, v, state): sets the entry and emits one change event
putEntry(map, k, v, state) ==
    LET after == cacheSet(map, k, v)
        event == ChangeEvent(k, v, state)
    IN  [cache |-> after, ret |-> Undefined, emitted |-> <<event>>,
         observed |-> <<observes(after, event)>>]

\* remove emitting the change event before it deletes the entry
removeEntry_emitFirst(map, k, state) ==
    IF cacheHas(map, k)
    THEN LET event == ChangeEvent(k, cacheGet(map, k), state)
         IN  [cache |-> cacheDelete(map, k), ret |-> TRUE, emitted |-> <<event>>,
              observed |-> <<observes(map, event)>>]
    ELSE [cache |-> map, ret |-> FALSE, emitted |-> <<>>, observed |-> <<>>]

\* remove(k, state): only for an existing key; the event carries the removed value and
\* the entry is gone when the event is observed
removeEntry(map, k, state) ==
    IF cacheHas(map, k)
    THEN LET event == ChangeEvent(k, cacheGet(map, k), state)
             after == cacheDelete(map, k)
         IN  [cache |-> after, ret |-> TRUE, emitted |-> <<event>>,
              observed |-> <<observes(after, event)>>]
    ELSE [cache |-> map, ret |-> FALSE, emitted |-> <<>>, observed |-> <<>>]

\* a call into the store: its arguments, the map before it, and its result
StoreCall(op, k, v, state, before, result) ==
    [op |-> op, key |-> k, value |-> v, state |-> state, before |-> before,
     ret |-> result.ret, emitted |-> result.emitted, observed |-> result.observed]

\* initialize(): marks the store ready once, and notifies the waiting whenReady
\* callbacks in registration order
notifyWaiters(waiting, log) ==
    log \o [i \in 1..Len(waiting) |-> [callback |-> waiting[i], synchronous |-> FALSE]]

\* an initialize() that lets a ready store notify again
initializeStore_again(isReady, waiting, log) ==
    [ready |-> TRUE, waiters |-> <<>>,
     readyLog |-> IF isReady THEN log \o log ELSE notifyWaiters(waiting, log)]

initializeStore(isReady, waiting, log) ==
    IF isReady THEN [ready |-> TRUE, waiters |-> waiting, readyLog |-> log]
    ELSE [ready |-> TRUE, waiters |-> <<>>, readyLog |-> notifyWaiters(waiting, log)]

\* a populate() that loads a store whatever its state
populateStore_always(map, isReady, items) == [cache |-> items, ret |-> TRUE]

\* populate(items): loads the items into a store that was never populated or
\* initialized, and is refused by any other
populateStore(map, isReady, items) ==
    IF isReady THEN [cache |-> map, ret |-> FALSE] ELSE [cache |-> items, ret |-> TRUE]

\* a allValuesAsMap() that hands out the map of the store itself
allValuesAsMapOf_same(map) == [held |-> TRUE, alias |-> TRUE, value |-> map]

\* allValuesAsMap(): a new map with the entries of the store
allValuesAsMapOf(map) == [held |-> TRUE, alias |-> FALSE, value |-> map]
NoCopy == [held |-> FALSE, alias |-> FALSE, value |-> <<>>]

\* a stream that hands over every change of its key, whatever the state
matches_anyState(changes, event) == changes.made /\ event.key = changes.key

\* the filter of onChange(key, ...states): the key, and one of the states if any is
\* given
matches(changes, event) ==
    /\ changes.made
    /\ event.key = changes.key
    /\ (changes.states = {} \/ event.state \in changes.states)

\* the events of a call that reach the subscriber of the stream
deliver(changes, isSubscribed, emitted) ==
    IF isSubscribed THEN SelectSeq(emitted, LAMBDA event : matches(changes, event))
    ELSE <<>>
NoStream == [made |-> FALSE, key |-> Undefined, states |-> {}]

\* a mutation stream that hands every request to its subscriber
accepts_anyType(subscriber, type) == subscriber.made

\* onMutationRequest(exemplar, ...mutationTypes): the requests of the given types, of
\* every type if none is given
accepts(subscriber, type) ==
    subscriber.made /\ (subscriber.types = {} \/ type \in subscriber.types)

\* the caller's handler an answer of the mutator reaches; a missing handler is logged
replyOf(answer, value, hasSuccess, hasError) ==
    IF answer = "success" /\ hasSuccess
    THEN << [handler |-> "onSuccess", value |-> [mutated |-> value]] >>
    ELSE IF answer = "error" /\ hasError
         THEN << [handler |-> "onError", value |-> "something went wrong"] >>
         ELSE <<>>

\* mutate(v, type, onSuccess, onError): the envelope reaches the mutator subscribed for
\* the type, and the answer of the mutator the caller's handler
mutateStore(subscriber, value, type, hasSuccess, hasError) ==
    IF accepts(subscriber, type)
    THEN [requested |-> TRUE, answer |-> subscriber.answer,
          ran |-> replyOf(subscriber.answer, value, hasSuccess, hasError)]
    ELSE [requested |-> FALSE, answer |-> "none", ran |-> <<>>]
NoMutator == [made |-> FALSE, types |-> {}, answer |-> "none"]

\* the store a booted bus has before any is created, and a store just created
BootStore == "boot"
NewStore(name) == [name |-> name, ready |-> FALSE, order |-> 0, values |-> <<>>]
NoJoin == [made |-> FALSE, names |-> <<>>]

\* getStore(name) of the manager: the place of the store in creation order, 0 if none
storeIndex(all, name) ==
    IF \E i \in DOMAIN all : all[i].name = name
    THEN CHOOSE i \in DOMAIN all : all[i].name = name
    ELSE 0

\* createStore(name): the store of that name, created if there is none
createStores(all, names) ==
    LET missing == SelectSeq(names, LAMBDA name : storeIndex(all, name) = 0)
    IN  all \o [i \in 1..Len(missing) |-> NewStore(missing[i])]

\* a join that is complete as soon as one of its stores is ready
joined_any(all, names) ==
    \E i \in DOMAIN names :
        storeIndex(all, names[i]) # 0 /\ all[storeIndex(all, names[i])].ready

\* the join is complete: every named store is ready
joined(all, names) ==
    \A i \in DOMAIN names :
        storeIndex(all, names[i]) # 0 /\ all[storeIndex(all, names[i])].ready

\* the callback of the join is called with the stores when the join completes
joinFires(registered, before, after) ==
    IF registered.made /\ ~joined(before, registered.names)
                      /\ joined(after, registered.names)
    THEN <<after>> ELSE <<>>

\* the channels of the bus kernel
BusChannels == {"chan-a", "chan-b"}

\* an emission that ends after the first subscriber
emit_firstOnly(subs, channel, message) ==
    [i \in DOMAIN subs \cap {1} |->
        [channel |-> channel, message |-> message, to |-> subs[i].id]]

\* the emission of a message on a channel: every subscriber of the channel is called,
\* in subscription order
emit(subs, channel, message) ==
    [i \in DOMAIN subs |-> [channel |-> channel, message |-> message, to |-> subs[i].id]]

\* the subscribers left after an emission: one that unsubscribes in its callback gets
\* no later emission
afterEmit(subs) == SelectSeq(subs, LAMBDA sub : sub.reaction # "unsubscribe")

\* the levels of the logger, in the order of the enum
LogLevel == [Verbose |-> 0, Debug |-> 1, Info |-> 2, Warn |-> 3, Error |-> 4, Off |-> 5]
Level(n) == [set |-> TRUE, level |-> n]
NoLevel == [set |-> FALSE]
NoText == [isObject |-> FALSE, text |-> Undefined]

\* a < b of JavaScript for a level a and a level b that may be undefined
lessThan(a, b) == b.set /\ a < b.level

\* new LogObject().build(logLevel, channel, object, from, suppress)
LogObject(level, object, caller, suppress) ==
    [logLevel |-> level, object |-> object, caller |-> caller, suppress |-> suppress]

\* the console function and the prefix of each level the switch has a case for
consoleOf(level) ==
    IF level = LogLevel.Error THEN [fn |-> "console.error", prefix |-> "[Error]: "]
    ELSE IF level = LogLevel.Warn THEN [fn |-> "console.warn", prefix |-> "[Warn]: "]
    ELSE IF level = LogLevel.Info THEN [fn |-> "console.log", prefix |-> "[Inf]: "]
    ELSE IF level = LogLevel.Debug THEN [fn |-> "console.log", prefix |-> "[Deb]: "]
    ELSE IF level = LogLevel.Verbose THEN [fn |-> "console.log", prefix |-> "[Ver]: "]
    ELSE [fn |-> "none", prefix |-> ""]

\* the text handed to the console: the object, the caller and the time, with the %c
\* marks only if styling is on, and the prefix of the level for a payload that is no
\* object
outputOf(logObject, styled) ==
    LET mark == IF styled THEN "%c" ELSE ""
        body == mark \o logObject.object.text \o
                (IF logObject.caller # Undefined
                 THEN mark \o " [" \o logObject.caller \o "]" \o mark \o " (time)"
                 ELSE mark \o mark)
    IN  IF logObject.object.isObject THEN body
        ELSE consoleOf(logObject.logLevel).prefix \o body

\* the value log() leaves in _lastLog
lastOf(logObject) ==
    IF logObject.caller # Undefined
    THEN [isObject |-> FALSE,
          text |-> "[" \o logObject.caller \o "]: " \o logObject.object.text]
    ELSE logObject.object

\* a log() that writes a record of a level without a case with console.log
log_withDefault(logObject) ==
    IF lessThan(logObject.logLevel, logLevel)
    THEN [lastLog |-> lastLog, console |-> <<>>]
    ELSE IF logObject.suppress \/ silentFlag
    THEN [lastLog |-> lastOf(logObject), console |-> <<>>]
    ELSE [lastLog |-> lastOf(logObject),
          console |-> << [fn |-> IF consoleOf(logObject.logLevel).fn = "none"
                                 THEN "console.log"
                                 ELSE consoleOf(logObject.logLevel).fn,
                          output |-> outputOf(logObject, styledLogsSupported),
                          styles |-> IF styledLogsSupported THEN 3 ELSE 0] >>]

\* a log() that looks at suppress and silent before it records the object
log_quietFirst(logObject) ==
    IF lessThan(logObject.logLevel, logLevel) \/ logObject.suppress \/ silentFlag
    THEN [lastLog |-> lastLog, console |-> <<>>]
    ELSE log_withDefault(logObject)

\* Logger.log(logObject)
log(logObject) ==
    IF lessThan(logObject.logLevel, logLevel)
    THEN [lastLog |-> lastLog, console |-> <<>>]
    ELSE IF logObject.suppress
    THEN [lastLog |-> lastOf(logObject), console |-> <<>>]
    ELSE IF silentFlag
    THEN [lastLog |-> lastOf(logObject), console |-> <<>>]
    ELSE IF consoleOf(logObject.logLevel).fn = "none"
    THEN [lastLog |-> lastOf(logObject), console |-> <<>>]
    ELSE [lastLog |-> lastOf(logObject),
          console |-> << [fn |-> consoleOf(logObject.logLevel).fn,
                          output |-> outputOf(logObject, styledLogsSupported),
                          styles |-> IF styledLogsSupported THEN 3 ELSE 0] >>]

\* new Service(): the constructor calls listenToRequestStream(), which subscribes the
\* first request handler
OnlineConstructed ==
    /\ openHandlers = {1}
    /\ requestStreamSub = 1
    /\ streamsMade = 1
    /\ lastSwitch = "constructor"
    /\ handledBy = {}

\* the windows of the page: the parent window and its frames
ParentWindow == "parent"
Windows == {ParentWindow} \cup Range(WindowFrames)

\* no window of the page has published or posted anything
NoWindow == "<no window>"

\* a page whose proxies accept every origin and have posted nothing
FramesConstructed ==
    /\ frameOrigin = [w \in Windows |-> "https://a.example"]
    /\ frameAccepts = [w \in Windows |-> <<Wildcard>>]
    /\ frameListening = [w \in Windows |-> TRUE]
    /\ parentRegistry = <<>>
    /\ frameBus = [w \in Windows |-> <<>>]
    /\ inflight = <<>>
    /\ sentIn = NoWindow
    /\ frameOp = [op |-> "constructor"]

\* new Logger(): no level is set, nothing is suppressed
LoggerConstructed ==
    /\ logLevel = NoLevel
    /\ suppressFlag = FALSE
    /\ silentFlag = FALSE
    /\ styledLogsSupported = TRUE
    /\ lastLog = NoText
    /\ logOp = [op |-> "constructor"]

\* createStore('string'): an empty store, nothing called yet
StoreConstructed ==
    /\ subscribers = [channel \in BusChannels |-> <<>>]
    /\ deliveries = <<>>
    /\ published = 0
    /\ busOp = [op |-> "boot"]
    /\ stores = <<NewStore(BootStore)>>
    /\ join = NoJoin
    /\ joinLog = <<>>
    /\ mutator = NoMutator
    /\ replies = <<>>
    /\ stream = NoStream
    /\ subscribed = FALSE
    /\ received = <<>>
    /\ cache = <<>>
    /\ putKeys = {}
    /\ ready = FALSE
    /\ waiters = <<>>
    /\ readyLog = <<>>
    /\ copy = NoCopy
    /\ storeOp = StoreCall("createStore", Undefined, Undefined, Undefined, <<>>,
                           [ret |-> Undefined, emitted |-> <<>>, observed |-> <<>>])

(***************************************************************************)
(* Construction                                                            *)
(***************************************************************************)

\* MessageProxyConfig; a property that is not set is Absent
Config(type, origins, channels, allFrames, frames, parent) ==
    [proxyType |-> type, acceptedOrigins |-> origins, protectedChannels |-> channels,
     targetAllFrames |-> allFrames, targetSpecificFrames |-> frames, parentOrigin |-> parent]

\* the configurations a proxy of the given type is constructed from
Configs(type) ==
    {Config(type, o, c, TRUE, <<>>, Absent) :
        o \in {ArrayUnset} \cup {ArraySet(<<x>>) : x \in Origins},
        c \in {<<>>} \cup {<<x>> : x \in Channels}}

\* the relay listen() subscribes to the monitor stream, by config.proxyType
relayFor(type) ==
    CASE type = ProxyTypeParent -> "relayMessagesToChildren"
      [] type = ProxyTypeChild -> "relayMessagesToParent"
      [] OTHER -> Undefined

\* new ProxyControlImpl(bus, config), which ends with listen()
Constructed(config) ==
    /\ proxyType = config.proxyType
    /\ targetOrigin = IF config.acceptedOrigins.set THEN config.acceptedOrigins.value
                      ELSE <<Wildcard>>
    /\ targetAllFramesValue = config.targetAllFrames
    /\ targetedFrames = config.targetSpecificFrames
    /\ authorizedChannels = Push(config.protectedChannels, proxyControlChannel)
    /\ parentOriginValue = IF config.parentOrigin # Absent THEN config.parentOrigin
                           ELSE Wildcard
    /\ knownBusInstances = << >>
    /\ listening = TRUE
    /\ windowListeners = IF config.proxyType \in {ProxyTypeParent, ProxyTypeChild}
                         THEN 1 ELSE 0
    /\ monitorSubscription = relayFor(config.proxyType)
    /\ lastOp = "constructor"
    /\ ev = NoEvent
    /\ mo = NoMonitor
    /\ busSends = <<>>
    /\ posted = IF config.proxyType = ProxyTypeChild
                THEN sendControlToParent(RegisterEventBus, EventBusId, proxyType)
                ELSE <<>>
    /\ regBefore = << >>
    /\ threw = FALSE
    /\ ServicesConstructed(ServiceName)
    /\ StoreConstructed /\ LoggerConstructed /\ FramesConstructed /\ OnlineConstructed

\* a Parent proxy (the proxy of the top window) has been constructed
Init == \E config \in Configs(ProxyTypeParent) : Constructed(config)

\* a Child proxy (the proxy of a frame) has been constructed
InitChild == \E config \in Configs(ProxyTypeChild) : Constructed(config)

(***************************************************************************)
(* Actions: one per call into the proxy                                    *)
(***************************************************************************)

\* s repeated n times
RECURSIVE Repeat(_, _)
Repeat(s, n) == IF n <= 0 THEN <<>> ELSE s \o Repeat(s, n - 1)

Observe(op, event, monitor, sends, posts, thrown) ==
    /\ lastOp' = op
    /\ ev' = event
    /\ mo' = monitor
    /\ busSends' = sends
    /\ posted' = posts
    /\ regBefore' = knownBusInstances
    /\ threw' = thrown
    /\ UNCHANGED <<serviceVars, storeVars>>

\* the window delivers a 'message' event to every registered handler
WindowMessage(event) ==
    /\ windowListeners > 0
    /\ LET result == parentEventHandler(event)
           sends == Repeat(result.sends, windowListeners)
       IN  /\ knownBusInstances' = result.registry
           /\ Observe("parentEventHandler", event, NoMonitor, sends, monitorSends(sends),
                      result.threw)
    /\ UNCHANGED <<proxyType, targetOrigin, authorizedChannels, targetAllFramesValue,
                   targetedFrames, parentOriginValue, listening, windowListeners,
                   monitorSubscription>>

\* the monitor stream delivers the object of a message some other component sent
MonitorMessage(m) ==
    /\ monitorSubscription \in {"relayMessagesToChildren", "relayMessagesToParent"}
    /\ Observe("monitor", NoEvent, m, <<>>, monitorCallback(m), FALSE)
    /\ UNCHANGED proxyVars

addAllowedTargetOrigin(origin) ==
    /\ IndexOf(targetOrigin, origin) = 0 => Len(targetOrigin) < MaxOrigins
    /\ targetOrigin' = IF IndexOf(targetOrigin, origin) = 0 THEN Push(targetOrigin, origin)
                       ELSE targetOrigin
    /\ Observe("addAllowedTargetOrigin", NoEvent, NoMonitor, <<>>, <<>>, FALSE)
    /\ UNCHANGED <<proxyType, authorizedChannels, targetAllFramesValue, targetedFrames,
                   parentOriginValue, knownBusInstances, listening, windowListeners,
                   monitorSubscription>>

removeAllowedTargetOrigin(origin) ==
    /\ LET index == IndexOf(targetOrigin, origin)
       IN  targetOrigin' = IF index >= 1 THEN Splice1(targetOrigin, index) ELSE targetOrigin
    /\ Observe("removeAllowedTargetOrigin", NoEvent, NoMonitor, <<>>, <<>>, FALSE)
    /\ UNCHANGED <<proxyType, authorizedChannels, targetAllFramesValue, targetedFrames,
                   parentOriginValue, knownBusInstances, listening, windowListeners,
                   monitorSubscription>>

\* without configuration authorizedChannels is undefined, and indexOf on it throws
addAuthorizedChannel(channel) ==
    /\ authorizedChannels' = IF proxyType # NoConfig /\ IndexOf(authorizedChannels, channel) = 0
                             THEN Push(authorizedChannels, channel)
                             ELSE authorizedChannels
    /\ Observe("addAuthorizedChannel", NoEvent, NoMonitor, <<>>, <<>>, proxyType = NoConfig)
    /\ UNCHANGED <<proxyType, targetOrigin, targetAllFramesValue, targetedFrames,
                   parentOriginValue, knownBusInstances, listening, windowListeners,
                   monitorSubscription>>

removeAuthorizedChannel(channel) ==
    /\ LET index == IndexOf(authorizedChannels, channel)
       IN  authorizedChannels' = IF proxyType # NoConfig /\ index >= 1
                                 THEN Splice1(authorizedChannels, index)
                                 ELSE authorizedChannels
    /\ Observe("removeAuthorizedChannel", NoEvent, NoMonitor, <<>>, <<>>, proxyType = NoConfig)
    /\ UNCHANGED <<proxyType, targetOrigin, targetAllFramesValue, targetedFrames,
                   parentOriginValue, knownBusInstances, listening, windowListeners,
                   monitorSubscription>>

OriginArgs == Origins \cup {Wildcard}
ChannelArgs == Channels \cup {proxyControlChannel}

Next ==
    \/ \E event \in InboundEvents : WindowMessage(event)
    \/ \E m \in MonitorEvents : MonitorMessage(m)
    \/ \E origin \in OriginArgs : addAllowedTargetOrigin(origin)
    \/ \E origin \in OriginArgs : removeAllowedTargetOrigin(origin)
    \/ \E channel \in ChannelArgs : addAuthorizedChannel(channel)
    \/ \E channel \in ChannelArgs : removeAuthorizedChannel(channel)

\* the calls a Parent proxy receives
Spec == Init /\ [][Next]_vars

\* the calls a Child proxy receives
SpecChild == InitChild /\ [][Next]_vars

(***************************************************************************)
(* Vocabulary of the properties                                            *)
(***************************************************************************)

\* the last call was a delivery of ev to the inbound handler
Handled == lastOp = "parentEventHandler"

NoBusSend == busSends = <<>>
RegistryUnchanged == knownBusInstances = regBefore

\* ev.origin equals an entry of the accepted-origins array
OriginListed == Includes(targetOrigin, ev.origin)

\* the accepted-origins array holds the wildcard
WildcardListed == Includes(targetOrigin, Wildcard)

\* ev.data carries channel, type and payload, none of them null or empty
WellFormed ==
    /\ ev.data.shape = "object"
    /\ ev.data.channel \notin {Absent, Null, ""}
    /\ ev.data.type \notin {Absent, Null, ""}
    /\ ev.data.payload.shape \in {"undefined", "string", "object"}
    /\ ev.data.payload.shape = "string" => ev.data.payload.text # ""

\* ev.data carries the three properties and one of them is null or empty
NullOrEmptyProperty ==
    /\ ev.data.shape = "object"
    /\ \/ ev.data.channel \in {Null, ""}
       \/ ev.data.type \in {Null, ""}
       \/ ev.data.payload.shape = "null"
       \/ ev.data.payload.shape = "string" /\ ev.data.payload.text = ""

ChannelAuthorized == Includes(authorizedChannels, ev.data.channel)
OwnTagged == ev.data.shape = "object" /\ ev.data.from = OwnTag
CarriesControl == ev.data.control \notin {Null, Absent}

\* ev passed every check of the handler
Accepted ==
    /\ Handled
    /\ ~OwnTagged
    /\ checkOrigin(ev.origin)
    /\ WellFormed
    /\ ChannelAuthorized

(***************************************************************************)
(* Properties of the inbound handler and of the relay                      *)
(***************************************************************************)

\* C1: an inbound message whose origin equals no entry of the accepted-origins array,
\* while the array holds no '*', causes no send on the bus and no registry change,
\* whatever add/removeAllowedTargetOrigin calls came before (the array may be empty).
C1_OriginSoundness ==
    (Handled /\ ~OriginListed /\ ~WildcardListed) => (NoBusSend /\ RegistryUnchanged)

\* C1 witness: entries are listed, none matches, and the message would pass every
\* other check.
C1_Witness ==
    /\ Handled /\ ~OriginListed /\ ~WildcardListed
    /\ targetOrigin # <<>>
    /\ ~OwnTagged /\ WellFormed /\ ChannelAuthorized

\* C2: an inbound message whose origin equals any entry of the accepted-origins array,
\* whatever the entry's position, passes the origin check; a well-formed Request on an
\* authorised channel without control field then gives exactly one Request send on
\* that channel.
C2_OriginCompleteness ==
    (/\ Handled /\ OriginListed
     /\ ~OwnTagged /\ WellFormed /\ ChannelAuthorized
     /\ ev.data.type = MessageTypeRequest /\ ~CarriesControl)
    => (/\ Len(busSends) = 1
        /\ busSends[1].message.type = MessageTypeRequest
        /\ busSends[1].channel = ev.data.channel)

\* the monitor stream delivered a MessageData object whose message carries
\* proxyRebroadcast = true
RebroadcastMonitored == lastOp = "monitor" /\ mo.type = MonitorData /\ mo.data.proxyRebroadcast

\* C3: in the Parent and in the Child role, a monitor MessageData object whose message
\* carries proxyRebroadcast = true is posted neither to window.parent nor to a frame.
C3_NoRelayOfRebroadcast == RebroadcastMonitored => posted = <<>>

\* C4: a well-formed inbound message whose channel is not in the authorised-channels
\* array when it is received causes no send on the bus and no registry change,
\* whatever add/removeAuthorizedChannel calls came before.
C4_ChannelAuthorisation ==
    (Handled /\ WellFormed /\ ~ChannelAuthorized) => (NoBusSend /\ RegistryUnchanged)

\* C4 witness: the message passed the loop and origin checks and is refused for its
\* channel alone.
C4_Witness ==
    /\ Handled /\ WellFormed /\ ~ChannelAuthorized
    /\ ~OwnTagged /\ checkOrigin(ev.origin)

\* C5: the registry changes only on receipt of a message on the reserved control
\* channel; a message on another authorised channel leaves it unchanged even when it
\* carries a control field.
C5_RegistryOnlyByControlChannel ==
    (Handled /\ ~RegistryUnchanged)
    => (ev.data.shape = "object" /\ ev.data.channel = proxyControlChannel)

\* C6: an inbound message whose from tag is proxy-<own bus id> is dropped before every
\* other check: no send on the bus, no registry change.
C6_LoopPrevention == (Handled /\ OwnTagged) => (NoBusSend /\ RegistryUnchanged)

\* C6 witness: a message with the own tag that would pass every other check.
C6_Witness ==
    /\ Handled /\ OwnTagged
    /\ checkOrigin(ev.origin) /\ WellFormed /\ ChannelAuthorized

\* the send the proxy makes for the accepted message ev.data
IsRebroadcastOf(send) ==
    /\ send.message.proxyRebroadcast = TRUE
    /\ send.message.type = ev.data.type
    /\ send.channel = ev.data.channel
    /\ send.message.payload = ev.data.payload
    /\ send.from = ("ProxyControl-" \o EventBusId) \o "-" \o ev.origin

C8_StructuralValidation ==
    (Handled /\ (OriginListed \/ WildcardListed) /\ NullOrEmptyProperty)
    => (NoBusSend /\ RegistryUnchanged /\ ~threw)

\* C8 witness: the message passed the loop and origin checks, is on an authorised
\* channel, and has an empty or null payload.
C8_Witness ==
    /\ Handled /\ ~OwnTagged /\ checkOrigin(ev.origin)
    /\ ChannelAuthorized
    /\ ev.data.channel \notin {Null, ""} /\ ev.data.type \notin {Null, ""}
    /\ NullOrEmptyProperty

\* bus id b was registered before the last call
Registered(b) == b \in DOMAIN regBefore /\ regBefore[b].defined

\* the registry differs from what it was at most in the entry of b
OnlyEntryChanged(b) ==
    /\ DOMAIN knownBusInstances = DOMAIN regBefore \cup {b}
    /\ \A k \in DOMAIN regBefore : k # b => knownBusInstances[k] = regBefore[k]

\* C9: an accepted RegisterEventBus for b records b with the payload's proxyType and
\* active = true; an accepted BusStopListening (BusStartListening) for a registered b
\* sets active to false (true) and keeps its proxyType; any other command leaves the
\* registry unchanged; no control message produces a send.  (b is the body of the
\* message's payload, a ProxyControlPayload.)
C9_ControlTransitions ==
    (Accepted /\ CarriesControl)
    => LET b == ev.data.payload.body
           command == ev.data.control
           namesBus == ev.data.payload.shape = "object"
       IN  /\ NoBusSend
           /\ (command = RegisterEventBus /\ namesBus) =>
                /\ OnlyEntryChanged(b)
                /\ knownBusInstances[b] = ProxyState(ev.data.payload.proxyType, TRUE)
           /\ (command = BusStopListening /\ namesBus /\ Registered(b)) =>
                /\ OnlyEntryChanged(b)
                /\ knownBusInstances[b] = ProxyState(regBefore[b].type, FALSE)
           /\ (command = BusStartListening /\ namesBus /\ Registered(b)) =>
                /\ OnlyEntryChanged(b)
                /\ knownBusInstances[b] = ProxyState(regBefore[b].type, TRUE)
           /\ command \notin {RegisterEventBus, BusStopListening, BusStartListening} =>
                RegistryUnchanged

\* C9 witness: BusStopListening for an active registered bus, sent with another
\* proxyType than the one registered.
C9_Witness ==
    /\ Accepted /\ CarriesControl
    /\ ev.data.control = BusStopListening
    /\ Registered(ev.data.payload.body)
    /\ regBefore[ev.data.payload.body].active
    /\ regBefore[ev.data.payload.body].type # ev.data.payload.proxyType

\* C10: the reserved control channel is in the authorised-channels array in every
\* state of a proxy constructed with a configuration.
C10_ControlChannelAlwaysAuthorised == Includes(authorizedChannels, proxyControlChannel)

(***************************************************************************)
(* Life cycle: listen(), stopListening(), and a proxy constructed without  *)
(* configuration                                                           *)
(***************************************************************************)

\* private enabled: boolean = true (never assigned again)
enabled == TRUE

\* the guard of listen() without the test of this.listening
canListen_always == enabled

\* the guard of listen()
canListen == enabled /\ ~listening

\* the capture flag listenForInboundMessageEvents registers the handler with
ListenerCapture == TRUE

\* addEventListener('message', binding, {capture: true}): the binding is a new function
\* on every listen(), so one more handler is registered
listenForInboundMessageEvents(listeners) == listeners + 1

\* removeEventListener('message', binding, capture): removes the handler registered with
\* the same callback and the same capture flag, if there is one
removeEventListener(listeners, capture) ==
    IF capture = ListenerCapture /\ listeners > 0 THEN listeners - 1 ELSE listeners

\* registerChildBusWithParent
registerChildBusWithParent == sendControlToParent(RegisterEventBus, EventBusId, proxyType)

\* the switch of listen() over config.proxyType registers a window handler
addsListener == proxyType \in {ProxyTypeParent, ProxyTypeChild}

\* listen(): with config undefined, reading config.proxyType throws after listening
\* was set
listen ==
    /\ IF canListen
       THEN IF proxyType = NoConfig
            THEN /\ listening' = TRUE
                 /\ UNCHANGED <<windowListeners, monitorSubscription>>
                 /\ Observe("listen", NoEvent, NoMonitor, <<>>, <<>>, TRUE)
            ELSE /\ addsListener => windowListeners < MaxListeners
                 /\ listening' = TRUE
                 /\ windowListeners' = IF addsListener
                                       THEN listenForInboundMessageEvents(windowListeners)
                                       ELSE windowListeners
                 /\ monitorSubscription' = IF addsListener THEN relayFor(proxyType)
                                           ELSE monitorSubscription
                 /\ Observe("listen", NoEvent, NoMonitor, <<>>,
                            IF proxyType = ProxyTypeChild THEN registerChildBusWithParent
                            ELSE <<>>,
                            FALSE)
       ELSE /\ UNCHANGED <<listening, windowListeners, monitorSubscription>>
            /\ Observe("listen", NoEvent, NoMonitor, <<>>, <<>>, FALSE)
    /\ UNCHANGED <<proxyType, targetOrigin, authorizedChannels, targetAllFramesValue,
                   targetedFrames, parentOriginValue, knownBusInstances>>

\* stopListening(): unsubscribe() on an undefined monitorSubscription throws after
\* listening was cleared; removeEventListener is called without a capture flag (false)
stopListening ==
    /\ IF listening
       THEN IF monitorSubscription = Undefined
            THEN /\ listening' = FALSE
                 /\ UNCHANGED <<windowListeners, monitorSubscription>>
                 /\ Observe("stopListening", NoEvent, NoMonitor, <<>>, <<>>, TRUE)
            ELSE /\ listening' = FALSE
                 /\ monitorSubscription' = Unsubscribed
                 /\ windowListeners' = removeEventListener(windowListeners, FALSE)
                 /\ Observe("stopListening", NoEvent, NoMonitor, <<>>,
                            sendControlToParent(BusStopListening, EventBusId, proxyType),
                            FALSE)
       ELSE /\ UNCHANGED <<listening, windowListeners, monitorSubscription>>
            /\ Observe("stopListening", NoEvent, NoMonitor, <<>>, <<>>, FALSE)
    /\ UNCHANGED <<proxyType, targetOrigin, authorizedChannels, targetAllFramesValue,
                   targetedFrames, parentOriginValue, knownBusInstances>>

\* new ProxyControlImpl(bus, undefined): the constructor logs an error and returns
\* before authorizedChannels, knownBusInstances and the monitor channel exist
ProxyWithoutConfig ==
    /\ proxyType = NoConfig
    /\ targetOrigin = <<Wildcard>>
    /\ targetAllFramesValue = TRUE
    /\ targetedFrames = <<>>
    /\ authorizedChannels = <<>>
    /\ parentOriginValue = Undefined
    /\ knownBusInstances = << >>
    /\ listening = FALSE
    /\ windowListeners = 0
    /\ monitorSubscription = Undefined
    /\ lastOp = "constructor"
    /\ ev = NoEvent
    /\ mo = NoMonitor
    /\ busSends = <<>>
    /\ posted = <<>>
    /\ regBefore = << >>
    /\ threw = FALSE

ConstructedWithoutConfig ==
    ProxyWithoutConfig /\ ServicesConstructed(ServiceName) /\ StoreConstructed /\ LoggerConstructed /\ FramesConstructed /\ OnlineConstructed

\* inbound messages of the life-cycle runs: a request on an application channel, and
\* the registration and the stop notice of a child bus
LifecycleData ==
    {ObjectData(OtherTag, ch, MessageTypeRequest, TextPayload("hi"), Null) : ch \in Channels}
    \cup {ObjectData(OtherTag, proxyControlChannel, MessageTypeControl,
                     ControlPayload(b, ProxyTypeChild), c) :
            b \in BusIds, c \in {RegisterEventBus, BusStopListening}}

LifecycleEvents == {[origin |-> o, data |-> d] : o \in Origins, d \in LifecycleData}

InitLifecycle ==
    \/ \E type \in {ProxyTypeParent, ProxyTypeChild} :
           \E config \in Configs(type) : Constructed(config)
    \/ ConstructedWithoutConfig

NextLifecycle ==
    \/ listen
    \/ stopListening
    \/ \E event \in LifecycleEvents : WindowMessage(event)
    \/ \E m \in MonitorEvents : MonitorMessage(m)
    \/ \E channel \in ChannelArgs : addAuthorizedChannel(channel)
    \/ \E channel \in ChannelArgs : removeAuthorizedChannel(channel)

\* a Parent proxy, a Child proxy or a proxy without configuration, started and stopped;
\* no configuration lists '*' and no call adds an origin
SpecLifecycle == InitLifecycle /\ [][NextLifecycle]_vars

\* the values of config.proxyType: the three types, and Absent when none is set
ProxyTypes == {ProxyTypeParent, ProxyTypeChild, ProxyTypeHybrid, Absent}

InitProxyTypes ==
    \E type \in ProxyTypes : \E config \in Configs(type) : Constructed(config)

NextProxyTypes ==
    \/ listen
    \/ stopListening
    \/ \E event \in LifecycleEvents : WindowMessage(event)
    \/ \E m \in MonitorEvents : MonitorMessage(m)

\* a proxy of every type, started and stopped
SpecProxyTypes == InitProxyTypes /\ [][NextProxyTypes]_vars

(***************************************************************************)
(* Properties of the default configuration and of the life cycle           *)
(***************************************************************************)

\* C11: the proxy accepts messages from every origin only when '*' was explicitly
\* configured.  In the life-cycle runs no configuration lists '*' and no call adds it:
\* an inbound message whose origin is not in the accepted-origins array of the
\* configuration (in particular every message to a proxy whose configuration sets no
\* acceptedOrigins) causes no send on the bus and no registry change.
C11_WildcardOnlyIfConfigured ==
    (Handled /\ ~OriginListed) => (NoBusSend /\ RegistryUnchanged)

\* the posts of the last call are exactly one control message to the parent with the
\* given command and the id of this bus as body
OneControlPost(command) ==
    /\ Len(posted) = 1
    /\ posted[1].to = "parent"
    /\ posted[1].message.control = command
    /\ posted[1].message.channel = proxyControlChannel
    /\ posted[1].message.payload.body = EventBusId

\* what a call of listen() / stopListening() on a Child proxy does, by the state it is
\* called in
ChildLifecycleStep ==
    proxyType = ProxyTypeChild =>
        /\ (lastOp' = "listen" /\ ~listening) =>
               (listening' /\ OneControlPost(RegisterEventBus)')
        /\ (lastOp' = "listen" /\ listening) =>
               (posted' = <<>> /\ UNCHANGED <<listening, windowListeners, monitorSubscription>>)
        /\ (lastOp' = "stopListening" /\ listening) =>
               (~listening' /\ OneControlPost(BusStopListening)')
        /\ (lastOp' = "stopListening" /\ ~listening) =>
               (posted' = <<>> /\ UNCHANGED <<listening, windowListeners, monitorSubscription>>)

\* C12: a Child proxy posts exactly one RegisterEventBus control message with its bus id
\* as body to the parent each time listen() takes it into the listening state, and
\* exactly one BusStopListening each time stopListening() takes it out; listen() on a
\* listening proxy and stopListening() on a proxy that is not listening post nothing
\* and add no handler and no subscription.
C12_ChildControlPosts == [][ChildLifecycleStep]_vars

\* C12 witness: a Child proxy that was stopped and started again has posted its
\* registration once more.
C12_Witness ==
    /\ proxyType = ProxyTypeChild
    /\ lastOp = "listen" /\ listening
    /\ windowListeners > 1
    /\ OneControlPost(RegisterEventBus)

\* C13: between stopListening() and the next listen() the proxy handles no inbound
\* window message (no send, no registry change) and relays no bus message outward;
\* while it listens, each accepted Request without control field gives exactly one
\* send, however many listen/stopListening cycles came before.
C13_StoppedMeansSilent ==
    /\ (Handled /\ ~listening) => (NoBusSend /\ RegistryUnchanged)
    /\ (lastOp = "monitor" /\ ~listening) => posted = <<>>
    /\ (Accepted /\ listening /\ ~CarriesControl /\ ev.data.type = MessageTypeRequest)
       => Len(busSends) = 1

\* C14: a proxy constructed without configuration never enters the listening state,
\* never sends on the bus, never posts to a window, and no call on it throws.
C14_UnconfiguredIsInert ==
    proxyType = NoConfig => (~listening /\ ~threw /\ NoBusSend /\ posted = <<>>)

\* the monitor stream delivered a MessageData object to the relay of this proxy
Monitored == lastOp = "monitor" /\ mo.type = MonitorData

\* C15: in the Parent and in the Child role, a message published on a channel that is
\* not in the authorised-channels array at that time is posted to no window, whatever
\* add/removeAuthorizedChannel calls came before.
C15_OutboundChannelAuthorisation ==
    (Monitored /\ ~Includes(authorizedChannels, mo.channel)) => posted = <<>>

\* C15 witness: a Child proxy that listens again monitors a fresh message on an
\* application channel that is not authorised.
C15_Witness ==
    /\ Monitored /\ ~Includes(authorizedChannels, mo.channel)
    /\ mo.channel \in Channels
    /\ ~mo.data.proxyRebroadcast
    /\ proxyType = ProxyTypeChild
    /\ windowListeners > 1

(***************************************************************************)
(* Actions of the services                                                 *)
(***************************************************************************)

\* the args of the n-th request served: its own uuid, and a version that is not the
\* default 1
RequestArgs(n) == MessageArgs("req-" \o ToString(n), 2, "requester")

\* inputs: the operation with the API class
ApiRequests == {<<"GET", "known">>, <<"GET", "unknown">>, <<"UPDATE_HEADERS", "known">>,
                <<"Bad Op", "known">>}

\* the derived service serves a request by a call of apiBridge (apiObject, httpOp, uri,
\* body, apiSuccessHandler, apiFailureHandler, apiClass, apiArgs); serviceCall issues
\* requestOnceWithId with a new id and attaches the handlers
apiBridge(httpOp, apiClass) ==
    /\ Len(calls) < MaxCalls
    /\ LET apiArgs == RequestArgs(Len(calls) + 1) IN
       IF ~requestConverterMapHas(httpOp)
       THEN /\ calls' = Append(calls, Call(apiArgs, httpOp, Undefined, FALSE))
            /\ UNCHANGED <<nextUuid, restChannel>>
       ELSE LET id == genUUID(nextUuid)
                restRequestObject ==
                    RestObject(requestConverterMapGet(httpOp), apiClass, ServiceName)
            IN  /\ Len(restChannel) < MaxInFlight
                /\ calls' = Append(calls, Call(apiArgs, httpOp, id, TRUE))
                /\ nextUuid' = nextUuid + 1
                /\ restChannel' = Append(restChannel,
                                         requestOnceWithId(id, restRequestObject, ServiceName))
    /\ UNCHANGED <<mustFail, pvtForceError, pvtForceResponse,
                   restError, listensTo, proxyVars, obsVars,
                   storeVars, mockOp>>

\* the REST channel delivers a request: the request stream of the mock handles it
mockReceives ==
    /\ restChannel # <<>>
    /\ Head(restChannel).type = MessageTypeRequest
    /\ LET m == Head(restChannel)
           result == handleServiceRequest(m.payload, MessageArgs(m.id, m.version, m.from))
       IN  /\ restChannel' = Tail(restChannel) \o result.sent
           /\ pvtForceError' = result.forceError
           /\ pvtForceResponse' = result.forceResponse
           /\ restError' = result.restError
           /\ calls' = [i \in DOMAIN calls |->
                           IF calls[i].handlerId = m.id
                           THEN [calls[i] EXCEPT !.answer = @ \o result.sent]
                           ELSE calls[i]]
    /\ UNCHANGED <<nextUuid, mustFail, listensTo, proxyVars, obsVars,
                   storeVars, mockOp>>

\* the REST channel delivers a Response or an Error: the once-handler it matches fires
\* and, through apiSuccessHandler or apiFailureHandler, posts the reply of the service
replyDelivered ==
    /\ restChannel # <<>>
    /\ Head(restChannel).type \in {MessageTypeResponse, MessageTypeError}
    /\ LET m == Head(restChannel)
       IN  /\ restChannel' = Tail(restChannel)
           /\ calls' = [i \in DOMAIN calls |->
                           IF onceMatches(calls[i], m) THEN fired(calls[i], m)
                           ELSE IF calls[i].handlerId = m.id
                           THEN [calls[i] EXCEPT !.late = TRUE]
                           ELSE calls[i]]
    /\ UNCHANGED <<nextUuid, mustFail, pvtForceError, pvtForceResponse,
                   restError, listensTo, proxyVars, obsVars,
                   storeVars, mockOp>>

\* another component sends a Response or an Error with the id of a request made
strayReply(type, id) ==
    /\ Len(restChannel) < MaxInFlight
    /\ \E i \in DOMAIN calls : calls[i].handlerId = id
    /\ restChannel' = Append(restChannel,
                             ChannelMessage(type, id, 1,
                                            IF type = MessageTypeResponse
                                            THEN RestObject("Get", "stray", OtherServiceName)
                                            ELSE RestError(500),
                                            OtherServiceName))
    /\ UNCHANGED <<calls, nextUuid, mustFail, pvtForceError, pvtForceResponse,
                   restError, listensTo, proxyVars, obsVars,
                   storeVars, mockOp>>

\* mock.mustFail = flag
setMustFail(flag) ==
    /\ mustFail' = flag
    /\ UNCHANGED <<calls, nextUuid, restChannel, pvtForceError, pvtForceResponse,
                   restError, listensTo, proxyVars, obsVars,
                   storeVars, mockOp>>

\* the stack stays within the bound when the value is pushed
canPush(stack, value, bound) ==
    (value # NullValue /\ stack.set) => Len(stack.value) < bound

\* mock.forceError = error
setForceError(error) ==
    /\ pvtForceError' = forceSet(pvtForceError, error)
    /\ UNCHANGED <<calls, nextUuid, restChannel, mustFail, pvtForceResponse, restError,
                   listensTo, proxyVars, obsVars,
                   storeVars, mockOp>>

\* mock.forceResponse = response
setForceResponse(response) ==
    /\ pvtForceResponse' = forceSet(pvtForceResponse, response)
    /\ UNCHANGED <<calls, nextUuid, restChannel, mustFail, pvtForceError, restError,
                   listensTo, proxyVars, obsVars,
                   storeVars, mockOp>>

\* no proxy is attached to the bus of the services; the mock listens to the service
\* or to another one
InitServices ==
    /\ ProxyWithoutConfig
    /\ \E name \in {ServiceName, OtherServiceName} : ServicesConstructed(name)
    /\ StoreConstructed /\ LoggerConstructed /\ FramesConstructed /\ OnlineConstructed

NextServices ==
    \/ \E r \in ApiRequests : apiBridge(r[1], r[2])
    \/ mockReceives
    \/ replyDelivered
    \/ \E t \in {MessageTypeResponse, MessageTypeError}, id \in {genUUID(n) : n \in 0..(MaxCalls - 1)} :
          strayReply(t, id)
    \/ \E flag \in BOOLEAN : setMustFail(flag)
    \/ \E e \in {RestError(500), NullValue} :
          canPush(pvtForceError, e, MaxStack) /\ setForceError(e)
    \/ \E r \in {[data |-> "forced"], NullValue} :
          canPush(pvtForceResponse, r, MaxStack) /\ setForceResponse(r)

\* a service, its REST mock and the REST channel between them
SpecServices == InitServices /\ [][NextServices]_vars

(***************************************************************************)
(* Properties of the services                                              *)
(***************************************************************************)

\* the handlers of the call ran n times in all
Invocations(call) == call.success + call.failure

\* C16: every Response or Error the service posts on its channel for a request
\* received with MessageArgs carries the uuid and the version of that request, on the
\* success path and on the error path.
C16_RepliesCarryRequestId ==
    \A i \in DOMAIN calls :
        calls[i].apiArgs.set =>
            \A k \in 1..Len(calls[i].replies) :
                /\ calls[i].replies[k].id = calls[i].apiArgs.uuid
                /\ calls[i].replies[k].version = calls[i].apiArgs.version

\* C16 witness: the service answered a request with an Error, after the REST mock
\* answered its REST request with an Error.
C16_Witness ==
    \E i \in DOMAIN calls :
        /\ calls[i].apiArgs.set
        /\ calls[i].failure = 1
        /\ Len(calls[i].replies) = 1
        /\ calls[i].replies[1].type = MessageTypeError
        /\ calls[i].answer # <<>>

\* C17: for each once-style request, the success and the failure handler run at most
\* once in all: success for a first Response with the id, failure for a first Error;
\* after that the handler is detached, and further Responses and Errors with the id
\* run neither.
C17_OnceHandlerFiresOnce ==
    \A i \in DOMAIN calls :
        /\ Invocations(calls[i]) <= 1
        /\ Invocations(calls[i]) = 1 =>
               /\ ~calls[i].attached
               /\ Len(calls[i].replies) = 1
               /\ calls[i].success = 1 <=> calls[i].replies[1].type = MessageTypeResponse
        /\ calls[i].late => Invocations(calls[i]) = 1

\* C17 witness: a handler ran its success handler, and a further message with its id
\* was delivered afterwards.
C17_Witness ==
    \E i \in DOMAIN calls : calls[i].success = 1 /\ calls[i].late

\* C18: every Error the REST mock sends in answer to a request that carried an id
\* (forced error, mustFail error, unhandled API class 444, unknown verb 505) carries
\* the id of that request.
C18_MockErrorsCarryRequestId ==
    \A i \in DOMAIN calls :
        \A k \in 1..Len(calls[i].answer) :
            calls[i].answer[k].type = MessageTypeError =>
                calls[i].answer[k].id = calls[i].handlerId

\* C19: every apiBridge call runs exactly one of its success and failure handlers (and
\* posts exactly one reply on the service channel) once the REST mock has answered and
\* nothing is in flight any more; a call with an operation that is not in the request
\* converter map posts an Error reply.
C19_EveryCallIsAnswered ==
    \A i \in DOMAIN calls :
        /\ Invocations(calls[i]) <= 1
        /\ Len(calls[i].replies) = Invocations(calls[i])
        /\ (calls[i].answer # <<>> /\ restChannel = <<>>) => Invocations(calls[i]) = 1
        /\ ~requestConverterMapHas(calls[i].httpOp) =>
               /\ Len(calls[i].replies) = 1
               /\ calls[i].replies[1].type = MessageTypeError

(***************************************************************************)
(* Actions of the store                                                    *)
(***************************************************************************)

\* the variables outside the store
busSide == <<proxyVars, obsVars, serviceVars, joinVars, kernelVars, loggerVars, frameVars, onlineVars>>
exceptStore == <<busSide, mutateVars>>

\* store.put(k, v, state)
put(k, v, state) ==
    LET result == putEntry(cache, k, v, state) IN
    /\ cache' = result.cache
    /\ putKeys' = putKeys \cup {k}
    /\ storeOp' = StoreCall("put", k, v, state, cache, result)
    /\ received' = received \o deliver(stream, subscribed, result.emitted)
    /\ UNCHANGED <<stream, subscribed, lifeVars, exceptStore>>

\* store.get(k)
get(k) ==
    /\ storeOp' = StoreCall("get", k, Undefined, Undefined, cache,
                            [ret |-> cacheGet(cache, k), emitted |-> <<>>,
                             observed |-> <<>>])
    /\ UNCHANGED <<cache, putKeys, lifeVars, changeVars, exceptStore>>

\* store.remove(k, state)
remove(k, state) ==
    LET result == removeEntry(cache, k, state) IN
    /\ cache' = result.cache
    /\ storeOp' = StoreCall("remove", k, Undefined, state, cache, result)
    /\ received' = received \o deliver(stream, subscribed, result.emitted)
    /\ UNCHANGED <<putKeys, stream, subscribed, lifeVars, exceptStore>>

\* no proxy is attached to the bus of the store
InitStore == ProxyWithoutConfig /\ ServicesConstructed(ServiceName) /\ StoreConstructed /\ LoggerConstructed /\ FramesConstructed /\ OnlineConstructed

NextStore ==
    \/ \E k \in StoreKeys, v \in StoreValues, state \in StoreStates : put(k, v, state)
    \/ \E k \in StoreKeys : get(k)
    \/ \E k \in StoreKeys, state \in StoreStates : remove(k, state)

\* the store 'string' of a bus without proxy
SpecStore == InitStore /\ [][NextStore]_vars

(***************************************************************************)
(* Properties of the store                                                 *)
(***************************************************************************)

\* C20: after put(k, v, s), get(k) returns v, and get of a key never put returns
\* undefined; remove(k, s) of an existing key returns true, emits exactly one change
\* event carrying the value held before, and the subscriber that observes the event
\* finds get(k) undefined; remove of an absent key returns false, emits nothing and
\* leaves the store unchanged.
C20_StorePutGetRemove ==
    /\ storeOp.op = "put" =>
           /\ cacheGet(cache, storeOp.key) = storeOp.value
           /\ \A k \in StoreKeys \ {storeOp.key} :
                  cacheGet(cache, k) = cacheGet(storeOp.before, k)
    /\ storeOp.op = "get" =>
           /\ storeOp.ret = cacheGet(storeOp.before, storeOp.key)
           /\ storeOp.key \notin putKeys => storeOp.ret = Undefined
           /\ cache = storeOp.before
    /\ (storeOp.op = "remove" /\ cacheHas(storeOp.before, storeOp.key)) =>
           /\ storeOp.ret = TRUE
           /\ storeOp.emitted =
                  << ChangeEvent(storeOp.key, cacheGet(storeOp.before, storeOp.key),
                                 storeOp.state) >>
           /\ Len(storeOp.observed) = 1
           /\ storeOp.observed[1].value = cacheGet(storeOp.before, storeOp.key)
           /\ storeOp.observed[1].get = Undefined
           /\ cacheGet(cache, storeOp.key) = Undefined
    /\ (storeOp.op = "remove" /\ ~cacheHas(storeOp.before, storeOp.key)) =>
           /\ storeOp.ret = FALSE
           /\ storeOp.emitted = <<>>
           /\ storeOp.observed = <<>>
           /\ cache = storeOp.before

\* C20 witness: an existing key was removed from a store holding another key too, and
\* the subscriber saw the event.
C20_Witness ==
    /\ storeOp.op = "remove"
    /\ storeOp.ret = TRUE
    /\ Len(storeOp.before) = 2
    /\ Len(storeOp.observed) = 1
    /\ storeOp.observed[1].value \in StoreValues

(***************************************************************************)
(* Direct calls into the REST mock                                         *)
(***************************************************************************)

\* the forced values a test assigns, and the depth of the stacks
MaxForced == 2
ForcedResponses == {[data |-> "forced-1"], [data |-> "forced-2"]}
ForcedErrors == {RestError(500)}

\* a request handed to handleServiceRequest by the request stream of the mock
handleRequest(request, apiClass, senderName) ==
    LET restObject == RestObject(request, apiClass, senderName)
        result == handleServiceRequest(restObject,
                                       MessageArgs("req-mock", 1, senderName))
    IN  /\ pvtForceError' = result.forceError
        /\ pvtForceResponse' = result.forceResponse
        /\ restError' = result.restError
        /\ mockOp' = MockCall("request", restObject, MockFields, result.sent,
                               [forceError |-> result.forceError,
                                forceResponse |-> result.forceResponse,
                                restError |-> result.restError])
        /\ UNCHANGED <<calls, nextUuid, restChannel, mustFail, listensTo, proxyVars,
                       obsVars, storeVars>>

\* mock.forceResponse read: undefined[0] throws when no stack is set
readForceResponse ==
    /\ mockOp' = MockCall("forceResponse", Undefined, MockFields, <<>>,
                          IF hasForce(pvtForceResponse)
                          THEN forceGet(pvtForceResponse) ELSE [threw |-> "TypeError"])
    /\ pvtForceResponse' = IF hasForce(pvtForceResponse)
                           THEN forceLeft(pvtForceResponse) ELSE pvtForceResponse
    /\ UNCHANGED <<calls, nextUuid, restChannel, mustFail, pvtForceError, restError,
                   listensTo, proxyVars, obsVars, storeVars>>

\* mock.forceError read
readForceError ==
    /\ mockOp' = MockCall("forceError", Undefined, MockFields, <<>>,
                          IF hasForce(pvtForceError)
                          THEN forceGet(pvtForceError) ELSE [threw |-> "TypeError"])
    /\ pvtForceError' = IF hasForce(pvtForceError)
                        THEN forceLeft(pvtForceError) ELSE pvtForceError
    /\ UNCHANGED <<calls, nextUuid, restChannel, mustFail, pvtForceResponse, restError,
                   listensTo, proxyVars, obsVars, storeVars>>

\* the mock of the service, called directly
InitMock == ProxyWithoutConfig /\ ServicesConstructed(ServiceName) /\ StoreConstructed /\ LoggerConstructed /\ FramesConstructed /\ OnlineConstructed

NextMock ==
    \/ \E request \in {"Get", "Post", "UpdateGlobalHeaders"},
          senderName \in {ServiceName, OtherServiceName} :
          handleRequest(request, "known", senderName)
    \/ readForceResponse
    \/ readForceError
    \/ \E flag \in BOOLEAN : setMustFail(flag)
    \/ \E e \in ForcedErrors \cup {NullValue} :
          canPush(pvtForceError, e, MaxForced) /\ setForceError(e)
    \/ \E r \in ForcedResponses \cup {NullValue} :
          canPush(pvtForceResponse, r, MaxForced) /\ setForceResponse(r)

SpecMock == InitMock /\ [][NextMock]_vars

(***************************************************************************)
(* Properties of the REST mock                                             *)
(***************************************************************************)

\* the last call was a request of the mock's own service
OwnRequest == mockOp.op = "request" /\ mockOp.restObject.senderName = listensTo

\* C28: whenever mustFail is true and no forced error is set, the mock answers a
\* request of its own service with the synthetic mock failure of code 400, whatever
\* requests it handled before.
C28_MustFailAnswers400 ==
    (OwnRequest /\ mockOp.before.mustFail /\ ~hasForce(mockOp.before.forceError)) =>
        mockOp.sent =
            << sendErrorMessageWithId(RestError(MOCK_FAKE_ERROR), "req-mock", MockName) >>

\* n successive reads of the getter: the values read, and the stack left
RECURSIVE Reads(_, _)
Reads(stack, n) ==
    IF n = 0 THEN <<>> ELSE <<forceGet(stack)>> \o Reads(forceLeft(stack), n - 1)
RECURSIVE LeftAfter(_, _)
LeftAfter(stack, n) == IF n = 0 THEN stack ELSE LeftAfter(forceLeft(stack), n - 1)
Reverse(s) == [i \in 1..Len(s) |-> s[Len(s) + 1 - i]]

\* a stack that holds v1..vn reads as vn, .., v1, then v1 again and again, and is
\* still set; a further value goes on top; a null clears it
StackDiscipline(stack, values) ==
    stack.set =>
        /\ Len(stack.value) >= 1
        /\ Reads(stack, Len(stack.value) + 2)
               = Reverse(stack.value) \o <<stack.value[1], stack.value[1]>>
        /\ hasForce(LeftAfter(stack, Len(stack.value) + 2))
        /\ \A v \in values :
               /\ hasForce(forceSet(stack, v))
               /\ forceSet(stack, v).value = Append(stack.value, v)
        /\ ~hasForce(forceSet(stack, NullValue))

Top(stack) == stack.value[Len(stack.value)]

\* the answers of the mock to the request it was handed
ErrorAnswer(err) == << sendErrorMessageWithId(err, "req-mock", MockName) >>
DataAnswer(data) ==
    << sendResponseMessageWithId([mockOp.restObject EXCEPT !.response = data],
                                 "req-mock", MockName) >>

C32_IgnoresOtherSenders ==
    (mockOp.op = "request" /\ mockOp.restObject.senderName # listensTo) =>
        /\ mockOp.sent = <<>>
        /\ mockOp.ret.forceResponse = mockOp.before.forceResponse
        /\ mockOp.ret.forceError = mockOp.before.forceError
        /\ mockOp.ret.restError = mockOp.before.restError

\* C32 witness: a request with an unknown verb of another service reached a mock that
\* has a forced error and two forced responses.
C32_Witness ==
    /\ mockOp.op = "request"
    /\ mockOp.restObject.senderName = OtherServiceName
    /\ listensTo # OtherServiceName
    /\ mockOp.restObject.request = "UpdateGlobalHeaders"
    /\ hasForce(mockOp.before.forceError)
    /\ Len(mockOp.before.forceResponse.value) = 2
    /\ mockOp.sent = <<>>

(***************************************************************************)
(* Frame targeting of the Parent proxy                                     *)
(***************************************************************************)

\* targetAllFrames(allFrames): applied only while no targeted frame is registered
targetAllFrames(allFrames) ==
    /\ targetAllFramesValue' = IF Len(targetedFrames) <= 0 THEN allFrames
                               ELSE targetAllFramesValue
    /\ Observe("targetAllFrames", NoEvent, NoMonitor, <<>>, <<>>, FALSE)
    /\ UNCHANGED <<proxyType, targetOrigin, authorizedChannels, targetedFrames,
                   parentOriginValue, knownBusInstances, listening, windowListeners,
                   monitorSubscription>>

addTargetedFrame(frameId) ==
    /\ targetedFrames' = IF IndexOf(targetedFrames, frameId) = 0
                         THEN Push(targetedFrames, frameId) ELSE targetedFrames
    /\ Observe("addTargetedFrame", NoEvent, NoMonitor, <<>>, <<>>, FALSE)
    /\ UNCHANGED <<proxyType, targetOrigin, authorizedChannels, targetAllFramesValue,
                   parentOriginValue, knownBusInstances, listening, windowListeners,
                   monitorSubscription>>

removeTargetedFrame(frameId) ==
    /\ LET index == IndexOf(targetedFrames, frameId)
       IN  targetedFrames' = IF index >= 1 THEN Splice1(targetedFrames, index)
                             ELSE targetedFrames
    /\ Observe("removeTargetedFrame", NoEvent, NoMonitor, <<>>, <<>>, FALSE)
    /\ UNCHANGED <<proxyType, targetOrigin, authorizedChannels, targetAllFramesValue,
                   parentOriginValue, knownBusInstances, listening, windowListeners,
                   monitorSubscription>>

\* a Parent proxy constructed with every combination of targetAllFrames and
\* targetSpecificFrames
InitTargeting ==
    \E allFrames \in BOOLEAN, frames \in {<<>>, <<WindowFrames[1]>>}, c \in Channels,
       o \in Origins :
        Constructed(Config(ProxyTypeParent, ArraySet(<<o>>), <<c>>, allFrames, frames,
                           Absent))

NextTargeting ==
    \/ \E allFrames \in BOOLEAN : targetAllFrames(allFrames)
    \/ \E frameId \in Range(WindowFrames) : addTargetedFrame(frameId)
    \/ \E frameId \in Range(WindowFrames) : removeTargetedFrame(frameId)
    \/ \E m \in MonitorEvents : MonitorMessage(m)

SpecTargeting == InitTargeting /\ [][NextTargeting]_vars

\* C30: whenever at least one targeted frame is registered, a relayed message is posted
\* only to the targeted frames and not to the other frames of the window.
C30_OnlyTargetedFrames ==
    (lastOp = "monitor" /\ Len(targetedFrames) > 0) =>
        \A i \in DOMAIN posted : Includes(targetedFrames, posted[i].to)

\* a message of a local sender on an authorised channel reached the relay of the
\* listening proxy
LocalRelay ==
    /\ lastOp = "monitor" /\ listening
    /\ mo.type = MonitorData /\ ~mo.data.proxyRebroadcast
    /\ Includes(authorizedChannels, mo.channel)

\* the number of posts the last call made to a window
PostsTo(target) == Cardinality({i \in DOMAIN posted : posted[i].to = target})

\* the frames a Parent proxy relays to: every frame when targeting all, and the
\* targeted frames
Destinations ==
    (IF targetAllFramesValue THEN Range(WindowFrames) ELSE {}) \cup Range(targetedFrames)

\* C37: a message published once by a local sender on an authorised channel while the
\* Parent proxy listens is posted exactly once to each destination frame and to no
\* other frame, for every configuration of targetAllFrames and targetSpecificFrames and
\* after any targetAllFrames / addTargetedFrame / removeTargetedFrame calls.
C37_OncePerDestination ==
    LocalRelay =>
        \A f \in Range(WindowFrames) : PostsTo(f) = (IF f \in Destinations THEN 1 ELSE 0)

(***************************************************************************)
(* The store: bulk load, readiness, and the map handed to callers          *)
(***************************************************************************)

\* the maps a store is populated with, and the whenReady callbacks registered
MaxWaiters == 2
PopulateMaps ==
    {<<>>, << <<"123", "miss you so much maggie pop">>, <<"456", "you were the best boy">> >>}

\* a call of the store's life cycle: what the store was before it, and its result
LifeCall(op, items, ret) ==
    [op |-> op, items |-> items, before |-> cache, wasReady |-> ready, ret |-> ret]

\* store.populate(items): a successful populate makes the store ready
populate(items) ==
    LET loaded == populateStore(cache, ready, items)
        result == IF loaded.ret THEN initializeStore(ready, waiters, readyLog)
                  ELSE [ready |-> ready, waiters |-> waiters, readyLog |-> readyLog]
    IN  /\ cache' = loaded.cache
        /\ ready' = result.ready
        /\ waiters' = result.waiters
        /\ readyLog' = result.readyLog
        /\ storeOp' = LifeCall("populate", items, loaded.ret)
        /\ UNCHANGED <<putKeys, copy, changeVars, exceptStore>>

\* store.initialize()
initialize ==
    LET result == initializeStore(ready, waiters, readyLog)
    IN  /\ ready' = result.ready
        /\ waiters' = result.waiters
        /\ readyLog' = result.readyLog
        /\ storeOp' = LifeCall("initialize", <<>>, Undefined)
        /\ UNCHANGED <<cache, putKeys, copy, changeVars, exceptStore>>

\* store.reset(): clears the values, emits nothing, keeps ready and the subscribers
reset ==
    /\ cache' = <<>>
    /\ storeOp' = LifeCall("reset", <<>>, Undefined)
    /\ UNCHANGED <<putKeys, ready, waiters, readyLog, copy, changeVars, exceptStore>>

\* store.whenReady(callback): invoked synchronously if the store is ready
whenReady ==
    /\ Len(waiters) + Len(readyLog) < MaxWaiters
    /\ LET callback == Len(waiters) + Len(readyLog) + 1
       IN  IF ready
           THEN /\ readyLog' = Append(readyLog,
                                      [callback |-> callback, synchronous |-> TRUE])
                /\ UNCHANGED waiters
           ELSE /\ waiters' = Append(waiters, callback)
                /\ UNCHANGED readyLog
    /\ storeOp' = LifeCall("whenReady", <<>>, Undefined)
    /\ UNCHANGED <<cache, putKeys, ready, copy, changeVars, exceptStore>>

\* const map = store.allValuesAsMap()
allValuesAsMap ==
    /\ copy' = allValuesAsMapOf(cache)
    /\ storeOp' = LifeCall("allValuesAsMap", <<>>, cache)
    /\ UNCHANGED <<cache, putKeys, ready, waiters, readyLog, changeVars, exceptStore>>

\* map.set(k, v) on the map the caller holds: it reaches the store only if the map
\* is the store's own
copySet(k, v) ==
    /\ copy.held
    /\ copy' = [copy EXCEPT !.value = cacheSet(@, k, v)]
    /\ cache' = IF copy.alias THEN cacheSet(cache, k, v) ELSE cache
    /\ storeOp' = LifeCall("map.set", << <<k, v>> >>, Undefined)
    /\ UNCHANGED <<putKeys, ready, waiters, readyLog, changeVars, exceptStore>>

\* map.delete(k) on the map the caller holds
copyDelete(k) ==
    /\ copy.held
    /\ copy' = [copy EXCEPT !.value = cacheDelete(@, k)]
    /\ cache' = IF copy.alias THEN cacheDelete(cache, k) ELSE cache
    /\ storeOp' = LifeCall("map.delete", << <<k, Undefined>> >>, Undefined)
    /\ UNCHANGED <<putKeys, ready, waiters, readyLog, changeVars, exceptStore>>

NextStoreLife ==
    \/ \E items \in PopulateMaps : populate(items)
    \/ initialize
    \/ reset
    \/ whenReady
    \/ \E k \in StoreKeys : put(k, "tip top", "Created")
    \/ allValuesAsMap
    \/ \E k \in StoreKeys : copySet(k, "bacon!")
    \/ \E k \in StoreKeys : copyDelete(k)

\* a store that is loaded, reset, made ready and read as a map
SpecStoreLife == InitStore /\ [][NextStoreLife]_vars

\* C21: populate(m) returns true only if the store has never been populated or
\* initialized before, and the store then holds exactly the entries of m; every later
\* populate returns false and leaves the stored entries and the ready flag unchanged.
C21_PopulateOnce ==
    storeOp.op = "populate" =>
        /\ storeOp.ret = ~storeOp.wasReady
        /\ storeOp.ret => (cache = storeOp.items /\ ready)
        /\ ~storeOp.ret => (cache = storeOp.before /\ ready = storeOp.wasReady)

\* C21 witness: a populate was refused by a store that holds entries and was made ready
\* earlier.
C21_Witness ==
    /\ storeOp.op = "populate"
    /\ storeOp.ret = FALSE
    /\ storeOp.items # <<>>
    /\ cache # <<>>
    /\ cache # storeOp.items

\* C22: setting or deleting entries of the map allValuesAsMap() returned changes
\* neither get(k) nor the result of a later allValuesAsMap().
C22_DefensiveCopy ==
    storeOp.op \in {"map.set", "map.delete"} =>
        /\ cache = storeOp.before
        /\ \A k \in StoreKeys : cacheGet(cache, k) = cacheGet(storeOp.before, k)
        /\ allValuesAsMapOf(cache).value = storeOp.before

\* C22 witness: the caller changed an entry of the map it got, and the map now
\* differs from the store.
C22_Witness ==
    /\ storeOp.op = "map.set"
    /\ copy.held
    /\ copy.value # cache
    /\ cache # <<>>

\* the callbacks invoked are all the callbacks registered, each once, in registration
\* order; none is invoked before the store is ready and none waits once it is
ReadyCallbacks ==
    /\ ready => (waiters = <<>> /\ \A i \in DOMAIN readyLog : readyLog[i].callback = i)
    /\ ~ready => (readyLog = <<>> /\ \A i \in DOMAIN waiters : waiters[i] = i)
    /\ \A i \in DOMAIN readyLog :
           readyLog[i].synchronous => \A j \in i..Len(readyLog) : readyLog[j].synchronous

\* a step of the store: ready never goes back, becomes true only by initialize() or a
\* populate(), at which step the waiting callbacks are invoked
ReadyStep ==
    /\ ready => ready'
    /\ (~ready /\ ready') =>
           /\ storeOp'.op \in {"initialize", "populate"}
           /\ readyLog' = notifyWaiters(waiters, <<>>)
    /\ ready => \A i \in DOMAIN readyLog : readyLog'[i] = readyLog[i]
    /\ ReadyCallbacks'

\* C26: the ready flag goes from false to true exactly once, through initialize() or
\* the first successful populate(), and never back (reset() keeps it); every whenReady
\* callback registered before is invoked exactly once at the transition, in
\* registration order, and a callback registered after it is invoked synchronously.
C26_Readiness == [][ReadyStep]_vars

\* C26 witness: a callback registered before the store was ready and one registered
\* after it were both invoked, and the store was reset since.
C26_Witness ==
    /\ ready
    /\ storeOp.op = "reset"
    /\ Len(readyLog) = 2
    /\ ~readyLog[1].synchronous
    /\ readyLog[2].synchronous

(***************************************************************************)
(* The store: change streams                                               *)
(***************************************************************************)

MaxReceived == 3
ChangeKeys == {"magnum", "cotton"}
ChangeStates == {"Created", "Updated", "Deleted"}
StreamStates == {{}, {"Updated"}, {"Created", "Deleted"}}

\* a call on the stream
StreamCall(op) ==
    [op |-> op, key |-> stream.key, value |-> Undefined, state |-> Undefined,
     before |-> cache, ret |-> Undefined, emitted |-> <<>>, observed |-> <<>>]

\* const sub = store.onChange(key, ...states)
onChange(key, states) ==
    /\ ~stream.made
    /\ stream' = [made |-> TRUE, key |-> key, states |-> states]
    /\ storeOp' = StreamCall("onChange")
    /\ UNCHANGED <<cache, putKeys, subscribed, received, lifeVars, exceptStore>>

\* sub.subscribe(handler)
subscribe ==
    /\ stream.made
    /\ subscribed' = TRUE
    /\ storeOp' = StreamCall("subscribe")
    /\ UNCHANGED <<cache, putKeys, stream, received, lifeVars, exceptStore>>

\* sub.unsubscribe(): nothing happens if the stream is not subscribed
unsubscribe ==
    /\ stream.made
    /\ subscribed' = FALSE
    /\ storeOp' = StreamCall("unsubscribe")
    /\ UNCHANGED <<cache, putKeys, stream, received, lifeVars, exceptStore>>

\* the subscriber of the tests takes MaxReceived events
canReceive == subscribed => Len(received) < MaxReceived

NextStoreChange ==
    \/ \E key \in ChangeKeys, states \in StreamStates : onChange(key, states)
    \/ subscribe
    \/ unsubscribe
    \/ \E k \in ChangeKeys, state \in ChangeStates :
           canReceive /\ put(k, "maggie", state)
    \/ \E k \in ChangeKeys, state \in ChangeStates :
           canReceive /\ remove(k, state)

\* the store 'dog' with one change stream
SpecStoreChange == InitStore /\ [][NextStoreChange]_vars

\* the change event of the call just made, if it made one
Changed(call) ==
    IF call.op = "put" THEN <<ChangeEvent(call.key, call.value, call.state)>>
    ELSE IF call.op = "remove" /\ call.ret = TRUE
         THEN <<ChangeEvent(call.key, cacheGet(call.before, call.key), call.state)>>
         ELSE <<>>

\* a step of the store with a change stream
ChangeStep ==
    LET change == Changed(storeOp')
        wanted == /\ subscribed
                  /\ change # <<>>
                  /\ change[1].key = stream.key
                  /\ (stream.states = {} \/ change[1].state \in stream.states)
    IN  /\ received' = IF wanted THEN Append(received, change[1]) ELSE received
        /\ storeOp'.op = "subscribe" => subscribed'
        /\ storeOp'.op = "unsubscribe" => (~subscribed' /\ stream' = stream)

\* C23: a subscriber of onChange(key, ...states) receives a put/remove change event if
\* and only if the event's key is key and its state is one of the states (any state when
\* none is given), and only while subscribed: one delivery per matching change, none
\* for changes made before subscribing or after unsubscribing, and an unsubscribe
\* before any subscription does not keep a later subscription from receiving.
C23_OnChangeDeliveries == [][ChangeStep]_vars

\* C23 witness: the subscriber of a stream filtered by state received three matching
\* changes, and a change that matches the filter was made after the unsubscribe and
\* not received.
C23_Witness ==
    /\ storeOp.op = "put"
    /\ ~subscribed
    /\ stream.states = {"Updated"}
    /\ storeOp.key = stream.key
    /\ storeOp.state = "Updated"
    /\ Len(received) = 3
    /\ \A i \in DOMAIN received : received[i].state = "Updated"

(***************************************************************************)
(* The store: mutation requests                                            *)
(***************************************************************************)

MaxMutations == 2
MutationTypes == {"Update", "AddStuff", "RemoveStuff"}
MutatorTypes == {{}, {"Update"}, {"AddStuff", "RemoveStuff"}}
MutatorAnswers == {"success", "error", "silent"}

\* const mutateStream = cache.onMutationRequest(new Dog(), ...types);
\* mutateStream.subscribe(handler): the handler answers every request the same way
onMutationRequest(types, answer) ==
    /\ mutator' = [made |-> TRUE, types |-> types, answer |-> answer]
    /\ storeOp' = [op |-> "onMutationRequest"]
    /\ UNCHANGED <<cache, putKeys, replies, lifeVars, changeVars, busSide>>

\* cache.mutate(d, type, onSuccess, onError)
mutate(value, type, hasSuccess, hasError) ==
    LET result == mutateStore(mutator, value, type, hasSuccess, hasError) IN
    /\ Len(replies) < MaxMutations
    /\ replies' = replies \o result.ran
    /\ storeOp' = [op |-> "mutate", value |-> value, type |-> type,
                   hasSuccess |-> hasSuccess, hasError |-> hasError,
                   subscriber |-> mutator, requested |-> result.requested,
                   answer |-> result.answer, ran |-> result.ran]
    /\ UNCHANGED <<cache, putKeys, mutator, lifeVars, changeVars, busSide>>

NextStoreMutate ==
    \/ \E types \in MutatorTypes, answer \in MutatorAnswers :
           onMutationRequest(types, answer)
    \/ \E type \in MutationTypes, hasSuccess \in BOOLEAN, hasError \in BOOLEAN :
           mutate("foxy", type, hasSuccess, hasError)

\* the store 'Dog' with one mutator
SpecStoreMutate == InitStore /\ [][NextStoreMutate]_vars

\* the handlers of the caller that ran in a call, by name
Ran(call, handler) ==
    Len(SelectSeq(call.ran, LAMBDA reply : reply.handler = handler))

\* C24: for a mutate(v, type, onSuccess, onError) received by a mutator subscribed
\* through onMutationRequest for that type, when the mutator calls success(r) then
\* onSuccess(r) runs exactly once and onError never; when it calls error(e) then
\* onError(e) runs exactly once and onSuccess never; a mutator subscribed for other
\* types only does not receive the request.
C24_MutationReplies ==
    (storeOp.op = "mutate" /\ storeOp.hasSuccess /\ storeOp.hasError) =>
        LET subscriber == storeOp.subscriber
            forType == subscriber.made /\ storeOp.type \in subscriber.types
            forOthers == /\ subscriber.made
                         /\ subscriber.types # {}
                         /\ storeOp.type \notin subscriber.types
        IN  /\ (forType /\ subscriber.answer = "success") =>
                   /\ storeOp.requested
                   /\ storeOp.ran =
                          << [handler |-> "onSuccess",
                              value |-> [mutated |-> storeOp.value]] >>
                   /\ Ran(storeOp, "onError") = 0
            /\ (forType /\ subscriber.answer = "error") =>
                   /\ storeOp.requested
                   /\ storeOp.ran =
                          << [handler |-> "onError", value |-> "something went wrong"] >>
                   /\ Ran(storeOp, "onSuccess") = 0
            /\ forOthers => (~storeOp.requested /\ storeOp.ran = <<>>)

\* C24 witness: a mutator subscribed for Update answered a request with an error after
\* an earlier request was answered with success, and each handler ran once.
C24_Witness ==
    /\ storeOp.op = "mutate"
    /\ storeOp.subscriber.types = {"Update"}
    /\ storeOp.type = "Update"
    /\ Len(replies) = 2
    /\ replies[1].handler = "onSuccess"
    /\ replies[2].handler = "onError"
    /\ storeOp.ran = <<replies[2]>>

\* C24 second witness: a request of a type the mutator is not subscribed for.
C24_WitnessOtherType ==
    /\ storeOp.op = "mutate"
    /\ storeOp.hasSuccess /\ storeOp.hasError
    /\ storeOp.subscriber.types = {"AddStuff", "RemoveStuff"}
    /\ storeOp.type = "Update"

(***************************************************************************)
(* The store manager: readyJoin                                            *)
(***************************************************************************)

StoreNames == {"ember", "fox"}
JoinNames == {<<"ember", "fox">>, <<"fox", "ember">>, <<"fox">>}
oneStoreVars == <<cache, storeOp, putKeys, lifeVars, changeVars, mutateVars>>
exceptJoin == <<proxyVars, obsVars, serviceVars, oneStoreVars, kernelVars, loggerVars, frameVars, onlineVars>>

\* the stores ready so far
ReadyStores(all) == Len(SelectSeq(all, LAMBDA store : store.ready))

\* bus.stores.readyJoin(names).whenReady(callback): stores that do not exist yet are
\* created; a join of stores that are all ready already completes at once
readyJoin(names) ==
    LET after == createStores(stores, names) IN
    /\ ~join.made
    /\ stores' = after
    /\ join' = [made |-> TRUE, names |-> names]
    /\ joinLog' = IF joined(after, names) THEN Append(joinLog, after) ELSE joinLog
    /\ UNCHANGED exceptJoin

\* bus.stores.createStore(name)
createStore(name) ==
    /\ stores' = createStores(stores, <<name>>)
    /\ UNCHANGED <<join, joinLog, exceptJoin>>

\* bus.stores.createStore(name).put('fox', 'honk', null)
putIn(name) ==
    LET all == createStores(stores, <<name>>)
        i == storeIndex(all, name)
    IN  /\ stores' = [all EXCEPT ![i].values = cacheSet(@, "fox", "honk")]
        /\ UNCHANGED <<join, joinLog, exceptJoin>>

\* bus.stores.createStore(name).initialize(), or a populate() of a store not ready:
\* a store becomes ready once
initializeIn(name) ==
    LET all == createStores(stores, <<name>>)
        i == storeIndex(all, name)
        after == IF all[i].ready THEN all
                 ELSE [all EXCEPT ![i].ready = TRUE,
                                  ![i].order = ReadyStores(all) + 1]
    IN  /\ stores' = after
        /\ joinLog' = joinLog \o joinFires(join, all, after)
        /\ UNCHANGED <<join, exceptJoin>>

\* bus.stores.wipeAllStores(): every store is reset and stays registered and ready
wipeAllStores ==
    /\ stores' = [i \in DOMAIN stores |-> [stores[i] EXCEPT !.values = <<>>]]
    /\ UNCHANGED <<join, joinLog, exceptJoin>>

NextJoin ==
    \/ \E names \in JoinNames : readyJoin(names)
    \/ \E name \in StoreNames : createStore(name)
    \/ \E name \in StoreNames : putIn(name)
    \/ \E name \in StoreNames : initializeIn(name)
    \/ wipeAllStores

\* the store manager of a booted bus
SpecJoin == InitStore /\ [][NextJoin]_vars

\* the array holds the store of that name
Holds(array, name) == \E i \in DOMAIN array : array[i].name = name

\* every store the join names exists and is ready
AllNamedReady ==
    \A i \in DOMAIN join.names :
        \E j \in DOMAIN stores : stores[j].name = join.names[i] /\ stores[j].ready

\* C25: readyJoin(names).whenReady fires if and only if every named store has become
\* ready, exactly once, never before the last named store becomes ready whatever the
\* order in which the stores become ready, and the callback receives an array that
\* contains each named store.
C25_ReadyJoin ==
    /\ Len(joinLog) <= 1
    /\ Len(joinLog) = 1 <=> (join.made /\ AllNamedReady)
    /\ \A n \in DOMAIN joinLog :
           /\ \A i \in DOMAIN join.names : Holds(joinLog[n], join.names[i])
           /\ \A i \in DOMAIN joinLog[n] :
                  (\E k \in DOMAIN join.names : join.names[k] = joinLog[n][i].name)
                      => joinLog[n][i].ready

\* C25 witness: the join of 'ember' and 'fox' fired after 'fox' became ready first and
\* 'ember' last, and the store 'ember' it handed over holds 'honk'.
C25_Witness ==
    /\ join = [made |-> TRUE, names |-> <<"ember", "fox">>]
    /\ Len(joinLog) = 1
    /\ Len(joinLog[1]) = 3
    /\ joinLog[1][2].name = "ember"
    /\ cacheGet(joinLog[1][2].values, "fox") = "honk"
    /\ joinLog[1][2].order > joinLog[1][3].order
    /\ joinLog[1][3].order > 0

(***************************************************************************)
(* The bus kernel: delivery to the subscribers of a channel                *)
(***************************************************************************)

MaxPublished == 2
Publishers == {"publisher-a", "publisher-b"}
Reactions == {"none", "unsubscribe"}
exceptKernel == <<proxyVars, obsVars, serviceVars, oneStoreVars, joinVars, loggerVars, frameVars, onlineVars>>

\* the subscribers of the bus, each subscribed to one channel at a time
Subscriptions == {1, 2}
IsSubscribed(id) ==
    \E channel \in BusChannels :
        \E i \in DOMAIN subscribers[channel] : subscribers[channel][i].id = id

\* bus.listenStream(channel).handle(callback): the callback does nothing more, or
\* unsubscribes when it is called
busSubscribe(id, channel, reaction) ==
    /\ ~IsSubscribed(id)
    /\ subscribers' = [subscribers EXCEPT
                          ![channel] = Append(@, [id |-> id, reaction |-> reaction])]
    /\ busOp' = [op |-> "subscribe"]
    /\ UNCHANGED <<deliveries, published, exceptKernel>>

\* handler.unsubscribe(): idempotent
busUnsubscribe(id, channel) ==
    /\ subscribers' = [subscribers EXCEPT
                          ![channel] = SelectSeq(@, LAMBDA sub : sub.id # id)]
    /\ busOp' = [op |-> "unsubscribe"]
    /\ UNCHANGED <<deliveries, published, exceptKernel>>

\* bus.sendResponseMessage(channel, payload, sender): the call returns after every
\* subscriber of the channel was called
busPublish(channel, publisher) ==
    LET message == [number |-> published + 1, publisher |-> publisher] IN
    /\ published < MaxPublished
    /\ published' = published + 1
    /\ deliveries' = deliveries \o emit(subscribers[channel], channel, message)
    /\ subscribers' = [subscribers EXCEPT ![channel] = afterEmit(@)]
    /\ busOp' = [op |-> "publish", channel |-> channel, message |-> message,
                 returned |-> TRUE]
    /\ UNCHANGED exceptKernel

NextKernel ==
    \/ \E id \in Subscriptions, channel \in BusChannels, reaction \in Reactions :
           busSubscribe(id, channel, reaction)
    \/ \E id \in Subscriptions, channel \in BusChannels : busUnsubscribe(id, channel)
    \/ \E channel \in BusChannels, publisher \in Publishers :
           busPublish(channel, publisher)

\* the kernel of a booted bus, its channels without subscribers
SpecKernel == InitStore /\ [][NextKernel]_vars

\* the calls made for a message
DeliveriesOf(made, number) ==
    SelectSeq(made, LAMBDA call : call.message.number = number)

\* a publish step calls the n subscribers the channel had when the message was
\* published, once each and in subscription order, before it returns; every other step
\* calls none
DeliveryStep ==
    IF busOp'.op = "publish" /\ published' = published + 1
    THEN LET channel == busOp'.channel
             n == Len(subscribers[channel])
             made == DeliveriesOf(deliveries', published')
         IN  /\ Len(deliveries') = Len(deliveries) + n
             /\ SubSeq(deliveries', 1, Len(deliveries)) = deliveries
             /\ Len(made) = n
             /\ \A i \in 1..n :
                    /\ made[i].to = subscribers[channel][i].id
                    /\ made[i].channel = channel
                    /\ made[i] = deliveries'[Len(deliveries) + i]
    ELSE deliveries' = deliveries

\* the messages of one publisher on one channel reach each subscriber in the order
\* they were published
PublishOrder ==
    \A i, j \in DOMAIN deliveries :
        (/\ i < j
         /\ deliveries[i].to = deliveries[j].to
         /\ deliveries[i].channel = deliveries[j].channel
         /\ deliveries[i].message.publisher = deliveries[j].message.publisher)
            => deliveries[i].message.number < deliveries[j].message.number

\* C27: for every message published on a channel that has n subscribers at publish
\* time, exactly n deliveries of that message occur, in subscription order, all before
\* the publish call returns; messages published on one channel by one publisher are
\* delivered to each subscriber in publish order.
C27_BusDelivery == [][DeliveryStep /\ PublishOrder']_vars

\* C27 witness: two messages of one publisher on one channel were delivered, the first
\* to two subscribers of which the one subscribed first has the greater id, the second
\* to the one left after the other unsubscribed in its callback.
C27_Witness ==
    /\ busOp.op = "publish"
    /\ published = 2
    /\ Len(deliveries) = 3
    /\ deliveries[1].to > deliveries[2].to
    /\ deliveries[2].message.number = 1
    /\ deliveries[3].message.publisher = deliveries[1].message.publisher
    /\ deliveries[3].channel = deliveries[1].channel
    /\ deliveries[3].to = deliveries[1].to

(***************************************************************************)
(* The logger                                                              *)
(***************************************************************************)

LogMethods == {"verbose", "debug", "info", "warn", "error"}
LogObjects == {[isObject |-> FALSE, text |-> "hello"],
               [isObject |-> TRUE, text |-> "[object Object]"]}
Callers == {Undefined, "caller.ts"}
exceptLogger == <<proxyVars, obsVars, serviceVars, oneStoreVars, joinVars, kernelVars, frameVars, onlineVars>>

\* the level of each method
levelOf(method) ==
    IF method = "verbose" THEN LogLevel.Verbose
    ELSE IF method = "debug" THEN LogLevel.Debug
    ELSE IF method = "info" THEN LogLevel.Info
    ELSE IF method = "warn" THEN LogLevel.Warn
    ELSE LogLevel.Error

\* the settings of the logger a call found
LoggerFields ==
    [logLevel |-> logLevel, suppress |-> suppressFlag, silent |-> silentFlag,
     styled |-> styledLogsSupported, lastLog |-> lastLog]

\* a call of the logger
LogCall(op, level, object, caller, console) ==
    [op |-> op, level |-> level, object |-> object, caller |-> caller,
     before |-> LoggerFields, console |-> console]

\* logger.verbose / debug / info / warn / error (object, from)
logAt(method, object, from) ==
    LET result == log(LogObject(levelOf(method), object, from, suppressFlag)) IN
    /\ lastLog' = result.lastLog
    /\ logOp' = LogCall(method, levelOf(method), object, from, result.console)
    /\ UNCHANGED <<logLevel, suppressFlag, silentFlag, styledLogsSupported, exceptLogger>>

\* logger.always(object, from): the LogObject is built without the suppress flag
always(object, from) ==
    LET result == log(LogObject(LogLevel.Off, object, from, FALSE)) IN
    /\ lastLog' = result.lastLog
    /\ logOp' = LogCall("always", LogLevel.Off, object, from, result.console)
    /\ UNCHANGED <<logLevel, suppressFlag, silentFlag, styledLogsSupported, exceptLogger>>

\* a setting of the logger
Setting(op, level, suppressed, silenced, styled, last) ==
    /\ logLevel' = level
    /\ suppressFlag' = suppressed
    /\ silentFlag' = silenced
    /\ styledLogsSupported' = styled
    /\ lastLog' = last
    /\ logOp' = LogCall(op, Undefined, Undefined, Undefined, <<>>)
    /\ UNCHANGED exceptLogger

turnOffAllLogging ==
    Setting("turnOffAllLogging", Level(LogLevel.Off), TRUE, TRUE, styledLogsSupported,
            lastLog)
turnOnAllLogging ==
    Setting("turnOnAllLogging", Level(LogLevel.Error), FALSE, FALSE, styledLogsSupported,
            lastLog)
setLogLevel(level) ==
    Setting("logLevel", Level(level), suppressFlag, silentFlag, styledLogsSupported, lastLog)
suppress(flag) ==
    Setting("suppress", logLevel, flag, silentFlag, styledLogsSupported, lastLog)
silent(flag) ==
    Setting("silent", logLevel, suppressFlag, flag, styledLogsSupported, lastLog)
setStylingVisble(flag) ==
    Setting("setStylingVisble", logLevel, suppressFlag, silentFlag, flag, lastLog)
clear ==
    Setting("clear", logLevel, suppressFlag, silentFlag, styledLogsSupported,
            [isObject |-> FALSE, text |-> ""])

NextLogger ==
    \/ \E method \in LogMethods, object \in LogObjects, from \in Callers :
           logAt(method, object, from)
    \/ \E object \in LogObjects, from \in Callers : always(object, from)
    \/ turnOffAllLogging
    \/ turnOnAllLogging
    \/ \E level \in 0..5 : setLogLevel(level)
    \/ \E flag \in BOOLEAN : suppress(flag)
    \/ \E flag \in BOOLEAN : silent(flag)
    \/ \E flag \in BOOLEAN : setStylingVisble(flag)
    \/ clear

\* a logger of its own
SpecLogger == InitStore /\ [][NextLogger]_vars

\* the record the call would leave in last()
Recorded ==
    IF logOp.caller # Undefined
    THEN [isObject |-> FALSE, text |-> "[" \o logOp.caller \o "]: " \o logOp.object.text]
    ELSE logOp.object

\* C33: a log call at level L (verbose, debug, info, warn, error) updates last() if and
\* only if L is at or above the configured log level, also when suppress or silent is
\* on; console output happens only when, in addition, neither suppress nor silent is
\* set. After turnOffAllLogging() no such call changes last() or writes to the console.
C33_LoggerFiltering ==
    /\ (logOp.op \in LogMethods /\ logOp.before.logLevel.set) =>
           LET passes == logOp.level >= logOp.before.logLevel.level
               quiet == logOp.before.suppress \/ logOp.before.silent
           IN  /\ passes => lastLog = Recorded
               /\ ~passes => lastLog = logOp.before.lastLog
               /\ Len(logOp.console) = (IF passes /\ ~quiet THEN 1 ELSE 0)
    /\ logOp.op = "turnOffAllLogging" =>
           (logLevel = Level(LogLevel.Off) /\ suppressFlag /\ silentFlag)
    /\ (logOp.op \in LogMethods /\ logOp.before.logLevel = Level(LogLevel.Off)) =>
           (lastLog = logOp.before.lastLog /\ logOp.console = <<>>)

\* C33 witness: a warning was recorded by a silent logger at level Info, without console
\* output, where last() held something else before.
C33_Witness ==
    /\ logOp.op = "warn"
    /\ logOp.before.logLevel = Level(LogLevel.Info)
    /\ logOp.before.silent
    /\ ~logOp.before.suppress
    /\ logOp.before.lastLog # Recorded
    /\ lastLog = Recorded
    /\ logOp.console = <<>>

\* C34: always(object) logs at every configured log level, Off included, and whatever
\* the suppress flag: the object is recorded in last() and written to the console,
\* unless the logger is silent.
C34_AlwaysLogs ==
    logOp.op = "always" =>
        /\ lastLog = Recorded
        /\ ~logOp.before.silent => Len(logOp.console) = 1


(***************************************************************************)
(* The page: a Parent proxy in the parent window, a Child proxy per frame  *)
(***************************************************************************)

\* window messages a proxy may have posted without one being delivered
MaxPosted == 3

\* EventBus.id of the bus of a window
frameBusId(w) == "bus-" \o w

\* config.proxyType of the proxy of a window
frameType(w) == IF w = ParentWindow THEN ProxyTypeParent ELSE ProxyTypeChild

\* authorizedChannels of every proxy: protectedChannels ['chat'], then the constructor
\* pushes the control channel
frameChannels == <<"chat", proxyControlChannel>>

\* the acceptedOrigins a proxy of the page is configured with
AcceptedLists ==
    {<<Wildcard>>, <<"https://a.example">>, <<"https://a.example", "https://b.example">>}

\* what postMessage hands to the target window: the structured clone of the message,
\* with the origin of the posting window
wiresFrom(origin, posts) ==
    [i \in 1..Len(posts) |->
        [to |-> posts[i].to,
         origin |-> origin,
         data |-> ObjectData(posts[i].message.from, posts[i].message.channel,
                             posts[i].message.type, posts[i].message.payload,
                             posts[i].message.control)]]

\* sendMessageToParent of the proxy of window w
frameSendToParent(w, message, chan) ==
    << Post(ParentWindow,
            BusProxyMessage(message.payload, chan, message.type, frameBusId(w)),
            Wildcard) >>

\* sendControlToParent of the proxy of window w
frameControlToParent(w, command) ==
    << Post(ParentWindow,
            [BusProxyMessage(ControlPayload(frameBusId(w), frameType(w)),
                             proxyControlChannel, MessageTypeControl, frameBusId(w))
                EXCEPT !.control = command],
            Wildcard) >>

\* sendMessageToChildFrames of the Parent proxy, which targets all frames
frameSendToChildFrames(message, chan) ==
    LET posted_ == BusProxyMessage(message.payload, chan, message.type, message.id)
    IN  [i \in 1..Len(WindowFrames) |-> Post(WindowFrames[i], posted_, Wildcard)]

\* the relay of window w for one send on its bus: the loop over authorizedChannels of
\* relayMessagesToChildren (Parent) or relayMessagesToParent (Child)
RECURSIVE frameRelayLoop(_, _, _)
frameRelayLoop(w, chans, send) ==
    IF chans = <<>> THEN <<>>
    ELSE (IF send.channel # Head(chans) THEN <<>>
          ELSE IF frameType(w) = ProxyTypeParent
          THEN frameSendToChildFrames(send.message, Head(chans))
          ELSE IF ~send.message.proxyRebroadcast
          THEN frameSendToParent(w, send.message, Head(chans))
          ELSE <<>>)
         \o frameRelayLoop(w, Tail(chans), send)

\* what the monitor subscription of window w posts for the sends made on its bus; the
\* subscription is open while the proxy listens
RECURSIVE frameMonitor(_, _, _)
frameMonitor(w, isListening, sends) ==
    IF sends = <<>> \/ ~isListening THEN <<>>
    ELSE frameRelayLoop(w, frameChannels, Head(sends))
         \o frameMonitor(w, isListening, Tail(sends))

\* isFromOwnBus of window w comparing the tag with the bare bus id
frameIsFromOwnBus_bareId(w, data) ==
    /\ data.shape = "object"
    /\ data.from # Absent
    /\ data.from = frameBusId(w)

\* isFromOwnBus of window w (event.data.from === `proxy-${EventBus.id}`)
frameIsFromOwnBus(w, data) ==
    /\ data.shape = "object"
    /\ data.from # Absent
    /\ data.from = "proxy-" \o frameBusId(w)

\* proxyMessage of window w: the sender is the name of the proxy of w and the origin
frameProxyMessage(w, message, origin) ==
    LET sends == proxyMessage(message, origin)
    IN  [i \in 1..Len(sends) |->
            [sends[i] EXCEPT !.from = ("ProxyControl-" \o frameBusId(w)) \o "-" \o origin]]

\* parentEventHandler of window w: the sends it makes on the bus of w and the registry
\* it leaves
frameHandler(w, event, registry) ==
    LET data == event.data
        dropped == [sends |-> <<>>, registry |-> registry]
    IN  IF frameIsFromOwnBus(w, data) THEN dropped
        ELSE IF ~originLoop(frameAccepts[w], event.origin, FALSE) THEN dropped
        ELSE IF ~hasData(data) THEN dropped
        ELSE IF ~isSerializedBusMessage(data) THEN dropped
        ELSE IF ~isValidProxyMessage(data) THEN dropped
        ELSE IF ~Includes(frameChannels, data.channel) THEN dropped
        ELSE IF isControl(data)
             THEN [sends |-> <<>>, registry |-> handleControl(registry, data)]
             ELSE [sends |-> frameProxyMessage(w, data, event.origin), registry |-> registry]

\* everything but the windows
exceptFrames ==
    <<proxyVars, obsVars, serviceVars, oneStoreVars, joinVars, kernelVars, loggerVars,
      onlineVars>>

\* the browser delivers the i-th window message in flight: the handler of the target
\* window runs, and the relay of that window sees every send the handler makes
deliverMessage(i) ==
    /\ i \in 1..Len(inflight)
    /\ LET msg == inflight[i]
           w == msg.to
           result == frameHandler(w, [origin |-> msg.origin, data |-> msg.data],
                                  IF w = ParentWindow THEN parentRegistry ELSE <<>>)
           posts == frameMonitor(w, frameListening[w], result.sends)
       IN  /\ frameBus' = [frameBus EXCEPT ![w] = @ \o result.sends]
           /\ parentRegistry' = IF w = ParentWindow THEN result.registry ELSE parentRegistry
           /\ inflight' = Splice1(inflight, i) \o wiresFrom(frameOrigin[w], posts)
           /\ frameOp' = [op |-> "deliver", to |-> w, sends |-> Len(result.sends)]
    /\ UNCHANGED <<frameOrigin, frameAccepts, frameListening, sentIn, exceptFrames>>

\* a local sender of window w publishes one message on the authorised channel
publishIn(w, type) ==
    /\ sentIn = NoWindow
    /\ LET send == BusSend("chat", Message("msg-1", type, TextPayload("hi"), FALSE), "local")
       IN  /\ frameBus' = [frameBus EXCEPT ![w] = Append(@, send)]
           /\ inflight' = inflight \o wiresFrom(frameOrigin[w],
                                                frameMonitor(w, frameListening[w], <<send>>))
    /\ sentIn' = w
    /\ frameOp' = [op |-> "publish", to |-> w, sends |-> 1]
    /\ UNCHANGED <<frameOrigin, frameAccepts, frameListening, parentRegistry, exceptFrames>>

\* the page after the three proxies are constructed: each Child proxy has posted its
\* registration from listen()
PageConstructed(origins, lists) ==
    /\ ProxyWithoutConfig /\ ServicesConstructed(ServiceName)
    /\ StoreConstructed /\ LoggerConstructed /\ OnlineConstructed
    /\ frameOrigin = origins
    /\ frameAccepts = lists
    /\ frameListening = [w \in Windows |-> TRUE]
    /\ parentRegistry = <<>>
    /\ frameBus = [w \in Windows |-> <<>>]
    /\ inflight = wiresFrom(origins[WindowFrames[1]],
                            frameControlToParent(WindowFrames[1], RegisterEventBus))
                  \o wiresFrom(origins[WindowFrames[2]],
                               frameControlToParent(WindowFrames[2], RegisterEventBus))
    /\ sentIn = NoWindow
    /\ frameOp = [op |-> "constructor"]

InitRelay ==
    \E origins \in [Windows -> Origins], lists \in [Windows -> AcceptedLists] :
        PageConstructed(origins, lists)

deliverAny == \E i \in 1..Len(inflight) : deliverMessage(i)

NextRelay ==
    \/ \E w \in Windows,
          type \in {MessageTypeRequest, MessageTypeResponse, MessageTypeError} :
            publishIn(w, type)
    \/ deliverAny

\* one message published somewhere on the page; the browser delivers every window
\* message posted
SpecRelay == InitRelay /\ [][NextRelay]_vars /\ WF_vars(deliverAny)


\* listen() of a Child proxy that posts no registration when it starts again
frameListen_silentRestart(c) ==
    /\ Len(inflight) < MaxPosted
    /\ frameListening' = [frameListening EXCEPT ![c] = TRUE]
    /\ frameOp' = [op |-> "listen", to |-> c, sends |-> 0]
    /\ UNCHANGED <<frameOrigin, frameAccepts, parentRegistry, frameBus, inflight, sentIn,
                   exceptFrames>>

\* listen() of the Child proxy of frame c: a proxy that does not listen starts and
\* posts its registration, a listening one does nothing
frameListen(c) ==
    /\ Len(inflight) < MaxPosted
    /\ frameListening' = [frameListening EXCEPT ![c] = TRUE]
    /\ inflight' = IF frameListening[c] THEN inflight
                   ELSE inflight \o wiresFrom(frameOrigin[c],
                                              frameControlToParent(c, RegisterEventBus))
    /\ frameOp' = [op |-> "listen", to |-> c, sends |-> 0]
    /\ UNCHANGED <<frameOrigin, frameAccepts, parentRegistry, frameBus, sentIn, exceptFrames>>

\* stopListening() of the Child proxy of frame c: a listening proxy stops and tells the
\* parent, one that does not listen does nothing
frameStopListening(c) ==
    /\ Len(inflight) < MaxPosted
    /\ frameListening' = [frameListening EXCEPT ![c] = FALSE]
    /\ inflight' = IF ~frameListening[c] THEN inflight
                   ELSE inflight \o wiresFrom(frameOrigin[c],
                                              frameControlToParent(c, BusStopListening))
    /\ frameOp' = [op |-> "stopListening", to |-> c, sends |-> 0]
    /\ UNCHANGED <<frameOrigin, frameAccepts, parentRegistry, frameBus, sentIn, exceptFrames>>

\* the browser delivers the window message posted first
deliverFirst == deliverMessage(1)

\* the Child proxies accept every origin; the origins of the windows and the
\* acceptedOrigins of the Parent proxy vary
InitRegistry ==
    \E origins \in [Windows -> Origins], list \in AcceptedLists :
        PageConstructed(origins, [w \in Windows |->
                                    IF w = ParentWindow THEN list ELSE <<Wildcard>>])

NextRegistry ==
    \/ \E c \in Range(WindowFrames) : frameListen(c)
    \/ \E c \in Range(WindowFrames) : frameStopListening(c)
    \/ deliverFirst

\* the Child proxies are stopped and started while the Parent proxy listens; window
\* messages are delivered in the order they were posted
SpecRegistry == InitRegistry /\ [][NextRegistry]_vars

(***************************************************************************)
(* Properties of the page                                                  *)
(***************************************************************************)

\* the origin check of the proxy of window w passes the origin of window v
acceptsOrigin(w, v) == originLoop(frameAccepts[w], frameOrigin[v], FALSE)

\* the Parent proxy and every Child proxy pass each other's origin
MutualAcceptance ==
    \A c \in Range(WindowFrames) :
        acceptsOrigin(ParentWindow, c) /\ acceptsOrigin(c, ParentWindow)

\* the number of sends made on the bus of window w
Emissions(w) == Len(frameBus[w])

\* every send on the bus of a window other than the publisher's is a rebroadcast of the
\* published message
RebroadcastsOnly(w) ==
    \A i \in 1..Len(frameBus[w]) :
        /\ frameBus[w][i].channel = "chat"
        /\ frameBus[w][i].message.proxyRebroadcast
        /\ frameBus[w][i].message.payload = TextPayload("hi")

\* no window message is in flight
Quiet == inflight = <<>>

\* the message is on the publisher's bus once, on every other bus at most once, and on
\* every other bus exactly once when no window message is left
OncePerBus ==
    (MutualAcceptance /\ sentIn # NoWindow)
    => /\ Emissions(sentIn) = 1
       /\ \A w \in Windows \ {sentIn} :
            /\ Emissions(w) <= 1
            /\ RebroadcastsOnly(w)
            /\ Quiet => Emissions(w) = 1

C35_WitnessParent ==
    /\ MutualAcceptance /\ Quiet
    /\ sentIn = ParentWindow
    /\ \A w \in Windows : Emissions(w) = 1


\* the entry of the registry of the Parent proxy for the bus of frame c
registryEntry(c) == MapGet(parentRegistry, frameBusId(c))

MaxStreams == 4

\* everything but the request handlers of the service
exceptOnline ==
    <<proxyVars, obsVars, serviceVars, oneStoreVars, joinVars, kernelVars, loggerVars,
      frameVars>>

\* listenToRequestStream: a new request stream, whose subscription replaces the one
\* held in requestStreamSub
listenToRequestStream ==
    [openHandlers |-> openHandlers \cup {streamsMade + 1},
     requestStreamSub |-> streamsMade + 1,
     streamsMade |-> streamsMade + 1]

\* service.online()
online ==
    /\ streamsMade < MaxStreams
    /\ openHandlers' = listenToRequestStream.openHandlers
    /\ requestStreamSub' = listenToRequestStream.requestStreamSub
    /\ streamsMade' = listenToRequestStream.streamsMade
    /\ lastSwitch' = "online"
    /\ handledBy' = {}
    /\ UNCHANGED exceptOnline

\* service.offline(): closes the subscription held in requestStreamSub
offline ==
    /\ openHandlers' = openHandlers \ {requestStreamSub}
    /\ lastSwitch' = "offline"
    /\ handledBy' = {}
    /\ UNCHANGED <<requestStreamSub, streamsMade, exceptOnline>>

\* a request is sent on the service channel: every open handler calls
\* handleServiceRequest
serviceRequest(request) ==
    /\ handledBy' = {<<handler, request>> : handler \in openHandlers}
    /\ UNCHANGED <<openHandlers, requestStreamSub, streamsMade, lastSwitch, exceptOnline>>

NextOnline ==
    \/ online
    \/ offline
    \/ \E request \in {"Get", "Post", "Delete"} : serviceRequest(request)

\* a service that is put offline and online while requests arrive
SpecOnline == InitStore /\ [][NextOnline]_vars

\* C38: after any sequence of online() and offline() calls the service has exactly one
\* open request handler if the last call was online() or none was made, and none if
\* the last call was offline().
C38_OnlineOffline ==
    Cardinality(openHandlers) = (IF lastSwitch = "offline" THEN 0 ELSE 1)


(***************************************************************************)
(* Stopping and starting a proxy of every type                             *)
(***************************************************************************)

\* C40: stopListening() on a listening proxy returns without throwing and leaves the
\* proxy not listening, whatever config.proxyType is (Parent, Child, Hybrid or not
\* set), and a following listen() leaves it listening, again without throwing.
C40_StopAndRestart ==
    /\ lastOp = "stopListening" => (~threw /\ ~listening)
    /\ lastOp = "listen" => (~threw /\ listening)


(***************************************************************************)
(* Control messages naming a bus that never registered                     *)
(***************************************************************************)

\* C39: an accepted BusStartListening or BusStopListening that names a bus id which was
\* never registered leaves the registry as it was: no entry is added for that id.
C39_UnknownBusUntouched ==
    (/\ Accepted /\ CarriesControl
     /\ ev.data.control \in {BusStartListening, BusStopListening}
     /\ ev.data.payload.shape = "object"
     /\ ev.data.payload.body \notin DOMAIN regBefore)
    => /\ DOMAIN knownBusInstances = DOMAIN regBefore
       /\ knownBusInstances = regBefore

====
